---- MODULE Spec2Model ----
(***************************************************************************)
(* Model of tycho's matching engine: normalisation and deduplication of    *)
(* postings (collector/normalize.py), keyword extraction                   *)
(* (matcher/keywords.py) and scoring (matcher/scorer.py).                  *)
(*                                                                         *)
(* A Python str is a sequence of one-character strings.  Objects live in   *)
(* a heap (a sequence of records); a list of objects is a sequence of      *)
(* heap references, so in-place mutation and aliasing are visible.         *)
(***************************************************************************)
EXTENDS Integers, Sequences, FiniteSets, TLC

VARIABLES
  jobs,      \* heap of Job objects: reference r denotes jobs[r]
  jobs0,     \* the heap as it was before the first deduplicate call
  jobs1,     \* the heap as it was when the first deduplicate call returned
  xs,        \* the list handed to deduplicate (references, in list order)
  result,    \* the list returned by deduplicate(xs)
  result2,   \* the list returned by deduplicate(deduplicate(xs))
  d_pc,      \* "idle", "start", "once" (one call returned), "twice"
  w_keyword, \* _word_match: the keyword argument
  w_text,    \* _word_match: the text argument
  w_match,   \* _word_match: the value returned
  w_pc,      \* "idle", "start", "done"
  k_description, \* extract_keywords: the description argument
  k_profile,     \* extract_keywords: the profile argument (or no profile)
  k_llm,         \* extract_keywords: the llm_client argument (or none)
  k_response,    \* what the capability did when it was called, if it was
  k_calls,       \* number of calls made to each method of the capability
  k_out,         \* extract_keywords: the list returned
  k_raised,      \* extract_keywords: an exception reached the caller
  k_pc,          \* "idle", "start", "done"
  s_job,         \* score_job: the job argument
  s_profile,     \* score_job: the profile argument
  s_config,      \* score_job: the config argument
  s_score,       \* score_job: the score returned
  s_details,     \* score_job: the details returned
  s_raised,      \* score_job: an exception reached the caller
  s_pc,          \* "idle", "start", "done"
  b_jobs,        \* score_jobs: heap of Job objects, reference r denotes b_jobs[r]
  b_jobs0,       \* the heap as it was before the call
  b_list,        \* score_jobs: the jobs argument (references, in list order)
  b_profile,     \* the profile argument (or no profile)
  b_config,      \* the config argument
  b_result,      \* what the call returned
  b_raised,      \* an exception reached the caller
  b_pc,          \* "idle", "start", "batch" (score_jobs ended), "one" (score_job ended)
  c_fn,          \* name of the function of cv/module_selector.py or scorer.py called
  c_args,        \* its arguments
  c_ret,         \* the value it returned
  c_pc,          \* "idle", "start", "done"
  db_rows,       \* the jobs table as the session sees it: JobRow objects in insertion order
  db_calls,      \* the upsert_job calls made on the session: posting and value returned
  db_pc          \* "idle", "open" (the session is open)

dedupVars == <<jobs, jobs0, jobs1, xs, result, result2, d_pc>>

wordVars == <<w_keyword, w_text, w_match, w_pc>>

kwVars ==
  <<k_description, k_profile, k_llm, k_response, k_calls, k_out, k_raised, k_pc>>

scoreVars == <<s_job, s_profile, s_config, s_score, s_details, s_raised, s_pc>>

batchVars ==
  <<b_jobs, b_jobs0, b_list, b_profile, b_config, b_result, b_raised, b_pc>>

callVars == <<c_fn, c_args, c_ret, c_pc>>

dbVars == <<db_rows, db_calls, db_pc>>

vars == <<dedupVars, wordVars, kwVars, scoreVars, batchVars, callVars, dbVars>>

----------------------------------------------------------------------------
(* Each specification below runs one component; the others stay idle *)

DedupIdle ==
  /\ jobs = <<>>
  /\ jobs0 = <<>>
  /\ jobs1 = <<>>
  /\ xs = <<>>
  /\ result = <<>>
  /\ result2 = <<>>
  /\ d_pc = "idle"

WordIdle ==
  /\ w_keyword = <<>>
  /\ w_text = <<>>
  /\ w_match = FALSE
  /\ w_pc = "idle"

KwIdle ==
  /\ k_description = <<>>
  /\ k_profile = <<>>
  /\ k_llm = <<>>
  /\ k_response = <<>>
  /\ k_calls = <<>>
  /\ k_out = <<>>
  /\ k_raised = FALSE
  /\ k_pc = "idle"

ScoreIdle ==
  /\ s_job = <<>>
  /\ s_profile = <<>>
  /\ s_config = <<>>
  /\ s_score = <<>>
  /\ s_details = <<>>
  /\ s_raised = FALSE
  /\ s_pc = "idle"

BatchIdle ==
  /\ b_jobs = <<>>
  /\ b_jobs0 = <<>>
  /\ b_list = <<>>
  /\ b_profile = <<>>
  /\ b_config = <<>>
  /\ b_result = <<>>
  /\ b_raised = FALSE
  /\ b_pc = "idle"

CallIdle ==
  /\ c_fn = "none"
  /\ c_args = <<>>
  /\ c_ret = <<>>
  /\ c_pc = "idle"

DbIdle ==
  /\ db_rows = <<>>
  /\ db_calls = <<>>
  /\ db_pc = "idle"

\* None
None == [none |-> TRUE]

----------------------------------------------------------------------------
(* Characters and strings *)

CharCode ==
  " " :> 32 @@ "#" :> 35 @@ "+" :> 43 @@ "," :> 44 @@ "-" :> 45 @@ "." :> 46 @@
  "/" :> 47 @@ "0" :> 48 @@ "1" :> 49 @@ "2" :> 50 @@ "3" :> 51 @@ "4" :> 52 @@
  "5" :> 53 @@ "6" :> 54 @@ "7" :> 55 @@ "8" :> 56 @@ "9" :> 57 @@ "A" :> 65 @@
  "B" :> 66 @@ "C" :> 67 @@ "D" :> 68 @@ "E" :> 69 @@ "F" :> 70 @@ "G" :> 71 @@
  "H" :> 72 @@ "I" :> 73 @@ "J" :> 74 @@ "K" :> 75 @@ "L" :> 76 @@ "M" :> 77 @@
  "N" :> 78 @@ "O" :> 79 @@ "P" :> 80 @@ "Q" :> 81 @@ "R" :> 82 @@ "S" :> 83 @@
  "T" :> 84 @@ "U" :> 85 @@ "V" :> 86 @@ "W" :> 87 @@ "X" :> 88 @@ "Y" :> 89 @@
  "Z" :> 90 @@ "_" :> 95 @@ "a" :> 97 @@ "b" :> 98 @@ "c" :> 99 @@ "d" :> 100 @@
  "e" :> 101 @@ "f" :> 102 @@ "g" :> 103 @@ "h" :> 104 @@ "i" :> 105 @@ "j" :> 106 @@
  "k" :> 107 @@ "l" :> 108 @@ "m" :> 109 @@ "n" :> 110 @@ "o" :> 111 @@ "p" :> 112 @@
  "q" :> 113 @@ "r" :> 114 @@ "s" :> 115 @@ "t" :> 116 @@ "u" :> 117 @@ "v" :> 118 @@
  "w" :> 119 @@ "x" :> 120 @@ "y" :> 121 @@ "z" :> 122 @@ "|" :> 124

UpperToLower ==
  "A" :> "a" @@ "B" :> "b" @@ "C" :> "c" @@ "D" :> "d" @@ "E" :> "e" @@ "F" :> "f" @@
  "G" :> "g" @@ "H" :> "h" @@ "I" :> "i" @@ "J" :> "j" @@ "K" :> "k" @@ "L" :> "l" @@
  "M" :> "m" @@ "N" :> "n" @@ "O" :> "o" @@ "P" :> "p" @@ "Q" :> "q" @@ "R" :> "r" @@
  "S" :> "s" @@ "T" :> "t" @@ "U" :> "u" @@ "V" :> "v" @@ "W" :> "w" @@ "X" :> "x" @@
  "Y" :> "y" @@ "Z" :> "z"


LowerChar(c) == IF c \in DOMAIN UpperToLower THEN UpperToLower[c] ELSE c

\* str.lower()
Lower(s) == [k \in 1..Len(s) |-> LowerChar(s[k])]

\* whitespace for str.strip() and for \s
IsSpaceChar(c) == c \in {" ", "\t", "\n"}

\* str.isalnum() of one character
IsAlnumChar(c) ==
  /\ c \in DOMAIN CharCode
  /\ \/ CharCode[c] \in 48..57
     \/ CharCode[c] \in 65..90
     \/ CharCode[c] \in 97..122

\* \w of one character
IsWordChar(c) == IsAlnumChar(c) \/ c = "_"

RECURSIVE LStrip(_)
LStrip(s) ==
  IF s # <<>> /\ IsSpaceChar(Head(s)) THEN LStrip(Tail(s)) ELSE s

RECURSIVE RStrip(_)
RStrip(s) ==
  IF s # <<>> /\ IsSpaceChar(s[Len(s)]) THEN RStrip(SubSeq(s, 1, Len(s) - 1)) ELSE s

\* str.strip()
Strip(s) == RStrip(LStrip(s))

\* re.sub(r"\s+", " ", s): every maximal whitespace run becomes one space
RECURSIVE CollapseWs(_)
CollapseWs(s) ==
  IF s = <<>> THEN <<>>
  ELSE IF IsSpaceChar(Head(s))
       THEN <<" ">> \o CollapseWs(LStrip(s))
       ELSE <<Head(s)>> \o CollapseWs(Tail(s))

\* str.endswith(suffix)
EndsWith(s, suffix) ==
  /\ Len(suffix) =< Len(s)
  /\ SubSeq(s, Len(s) - Len(suffix) + 1, Len(s)) = suffix

\* sub in s
Contains(s, sub) ==
  \E k \in 0..(Len(s) - Len(sub)) : SubSeq(s, k + 1, k + Len(sub)) = sub

\* s < t in Python's str ordering (code points, lexicographic)
RECURSIVE StrLess(_, _)
StrLess(s, t) ==
  IF t = <<>> THEN FALSE
  ELSE IF s = <<>> THEN TRUE
  ELSE IF Head(s) = Head(t) THEN StrLess(Tail(s), Tail(t))
  ELSE CharCode[Head(s)] < CharCode[Head(t)]

----------------------------------------------------------------------------
(* collector/normalize.py *)

normalize_text(text) == CollapseWs(Strip(Lower(text)))

CompanySuffixes ==
  << <<" ","i","n","c">>, <<" ","i","n","c",".">>,
     <<" ","l","t","d">>, <<" ","l","t","d",".">>,
     <<" ","l","l","c">>, <<" ","s",".","a",".">>,
     <<" ","s",".","l",".">>, <<" ","g","m","b","h">>,
     <<" ","p","l","c">> >>

\* the for loop over the suffixes, from suffix number k on
RECURSIVE StripSuffixes(_, _)
StripSuffixes(company, k) ==
  IF k > Len(CompanySuffixes) THEN company
  ELSE IF EndsWith(company, CompanySuffixes[k])
       THEN StripSuffixes(SubSeq(company, 1, Len(company) - Len(CompanySuffixes[k])), k + 1)
       ELSE StripSuffixes(company, k + 1)

normalize_company(company) == Strip(StripSuffixes(normalize_text(company), 1))

\* The md5 digest of the joined parts is taken to be collision-free: the key is
\* the joined string itself.
dedup_key(job) ==
  normalize_company(job.company) \o <<"|">> \o normalize_text(job.title)
    \o <<"|">> \o normalize_text(job.location)

(* Field values of the modelled postings *)

MaxJobs == 3

Companies ==
  { <<"A","c","m","e">>,
    <<"A","C","M","E"," "," ","I","n","c",".">>,
    <<"C","o","r","p">> }

Titles == { <<"D","e","v">> }

Locations == { <<"M","a","d","r","i","d">> }

Descriptions == { <<>>, <<"a">>, <<"b">>, <<"a","b">> }

\* ids: pairwise distinct (as uuid4 gives them), or the same id at every other job
IdPatterns(n) == { [k \in 1..n |-> k], [k \in 1..n |-> ((k - 1) % 2) + 1] }

JobObject(id, company, description) ==
  [id |-> id, source |-> "indeed", company |-> company, title |-> CHOOSE t \in Titles : TRUE,
   location |-> CHOOSE l \in Locations : TRUE, description |-> description]

\* dedup_key of every combination of the modelled field values, computed once
DedupKeyTable ==
  [c \in Companies, t \in Titles, l \in Locations |->
     dedup_key([company |-> c, title |-> t, location |-> l])]

KeyOf(job) == DedupKeyTable[job.company, job.title, job.location]

\* seen: a dict that keeps insertion order, as a sequence of [key, job] items
DictHas(seen, key) == \E k \in 1..Len(seen) : seen[k].key = key

DictGet(seen, key) == seen[CHOOSE k \in 1..Len(seen) : seen[k].key = key].job

\* a dict that puts a new key in front of the older ones
DictSetFront(seen, key, job) ==
  IF DictHas(seen, key)
  THEN [k \in 1..Len(seen) |-> IF seen[k].key = key THEN [key |-> key, job |-> job] ELSE seen[k]]
  ELSE <<[key |-> key, job |-> job]>> \o seen

\* a dict that moves an assigned key to the end
DictSetMoveToEnd(seen, key, job) ==
  SelectSeq(seen, LAMBDA item : item.key # key) \o <<[key |-> key, job |-> job]>>

\* a list of winners in place of a dict: an assignment adds an item and the
\* item of an existing key stays
DictSetKeepOld(seen, key, job) == Append(seen, [key |-> key, job |-> job])

\* seen[key] = job: an existing key keeps its position, a new key goes last
DictSet(seen, key, job) ==
  IF DictHas(seen, key)
  THEN [k \in 1..Len(seen) |-> IF seen[k].key = key THEN [key |-> key, job |-> job] ELSE seen[k]]
  ELSE Append(seen, [key |-> key, job |-> job])

\* list(seen.values())
DictValues(seen) == [k \in 1..Len(seen) |-> seen[k].job]

\* a comparison that lets an equally long description win
LongerOrEqual(new, old) == Len(new) >= Len(old)

\* len(job.description) > len(existing.description)
Longer(new, old) == Len(new) > Len(old)

\* a replacement that keeps the replacing job's own id
ReplaceNoCarry(heap, seen, key, job, existing) ==
  [heap |-> heap, seen |-> DictSet(seen, key, job)]

\* a replacement that copies the longer description into the first winner
ReplaceCopyContent(heap, seen, key, job, existing) ==
  [heap |-> [heap EXCEPT ![existing].description = heap[job].description],
   seen |-> seen]

\* job.id = existing.id; seen[key] = job
Replace(heap, seen, key, job, existing) ==
  [heap |-> [heap EXCEPT ![job].id = heap[existing].id],
   seen |-> DictSet(seen, key, job)]

\* the for loop of deduplicate, from element k of the list on
RECURSIVE DedupLoop(_, _, _, _)
DedupLoop(heap, seen, list, k) ==
  IF k > Len(list) THEN [heap |-> heap, seen |-> seen]
  ELSE LET job == list[k]
           key == KeyOf(heap[job])
       IN IF DictHas(seen, key)
          THEN LET existing == DictGet(seen, key)
               IN IF Longer(heap[job].description, heap[existing].description)
                  THEN LET r == Replace(heap, seen, key, job, existing)
                       IN DedupLoop(r.heap, r.seen, list, k + 1)
                  ELSE DedupLoop(heap, seen, list, k + 1)
          ELSE DedupLoop(heap, DictSet(seen, key, job), list, k + 1)

\* deduplicate(list) on the given heap: the heap it leaves and the list it returns
deduplicate(heap, list) ==
  LET r == DedupLoop(heap, <<>>, list, 1)
  IN [heap |-> r.heap, out |-> DictValues(r.seen)]

----------------------------------------------------------------------------
(* Postings handed to deduplicate *)

InitDedup ==
  /\ BatchIdle
  /\ CallIdle
  /\ DbIdle
  /\ WordIdle
  /\ KwIdle
  /\ ScoreIdle
  /\ \E n \in 0..MaxJobs :
       \E ids \in IdPatterns(n), cs \in [1..n -> Companies], ds \in [1..n -> Descriptions] :
         jobs = [k \in 1..n |-> JobObject(ids[k], cs[k], ds[k])]
  /\ jobs0 = jobs
  /\ jobs1 = jobs
  /\ xs = [k \in 1..Len(jobs) |-> k]
  /\ result = <<>>
  /\ result2 = <<>>
  /\ d_pc = "start"

\* result = deduplicate(xs)
Deduplicate ==
  /\ d_pc = "start"
  /\ LET r == deduplicate(jobs, xs)
     IN /\ jobs' = r.heap
        /\ jobs1' = r.heap
        /\ result' = r.out
  /\ d_pc' = "once"
  /\ UNCHANGED <<jobs0, xs, result2, wordVars, kwVars, scoreVars, batchVars, callVars, dbVars>>

\* result2 = deduplicate(result)
DeduplicateAgain ==
  /\ d_pc = "once"
  /\ LET r == deduplicate(jobs, result)
     IN /\ jobs' = r.heap
        /\ result2' = r.out
  /\ d_pc' = "twice"
  /\ UNCHANGED <<jobs0, jobs1, xs, result, wordVars, kwVars, scoreVars, batchVars, callVars, dbVars>>

NextDedup == Deduplicate \/ DeduplicateAgain

SpecDedup == InitDedup /\ [][NextDedup]_vars

----------------------------------------------------------------------------
(* Properties of deduplicate *)

Min(S) == CHOOSE m \in S : \A n \in S : m =< n

Range(seq) == { seq[k] : k \in 1..Len(seq) }

\* dedup key of the k-th posting of the input list
InputKey(k) == KeyOf(jobs0[xs[k]])

InputKeys == { InputKey(k) : k \in 1..Len(xs) }

\* positions in the input list of the postings with the given key
Positions(key) == { k \in 1..Len(xs) : InputKey(k) = key }

FirstPosition(key) == Min(Positions(key))

DescLen(k) == Len(jobs0[xs[k]].description)

\* first position, among those of the key, whose description is the longest
FirstLongest(key) ==
  Min({ k \in Positions(key) : \A m \in Positions(key) : DescLen(m) =< DescLen(k) })

\* positions whose posting replaced an earlier winner: not the first of its key,
\* and strictly longer than every earlier posting of the key
Replacers ==
  { k \in 1..Len(xs) :
      /\ k # FirstPosition(InputKey(k))
      /\ \A m \in Positions(InputKey(k)) : m < k => DescLen(m) < DescLen(k) }

\* C1: deduplicate(deduplicate(xs)) = deduplicate(xs): the second pass returns
\* the same postings in the same order, with the ids and descriptions the
\* first pass left them with.
C1_Idempotent ==
  d_pc = "twice" => /\ result2 = result
                    /\ jobs = jobs1

\* a second pass over a result of two keys, one of which had its winner replaced
C1_Witness ==
  /\ d_pc = "twice"
  /\ Len(result) >= 2
  /\ Replacers # {}
  /\ result2 = result

\* C2: for every dedup key of the input, the kept posting is the first one, in
\* input order, whose description is the longest of that key; it carries that
\* posting's description.
C2_KeepsFirstLongest ==
  d_pc = "once" =>
    \A key \in InputKeys :
      \E r \in Range(result) :
        /\ KeyOf(jobs[r]) = key
        /\ r = xs[FirstLongest(key)]
        /\ jobs[r].description = jobs0[xs[FirstLongest(key)]].description

\* a key whose longest description occurs twice, with different content, the
\* first time after a shorter one: the earlier of the two longest is kept
C2_Witness ==
  /\ d_pc = "once"
  /\ \E key \in InputKeys :
       \E a, b, c \in Positions(key) :
         /\ a < b /\ b < c
         /\ DescLen(a) < DescLen(b)
         /\ DescLen(b) = DescLen(c)
         /\ jobs0[xs[b]].description # jobs0[xs[c]].description
         /\ b = FirstLongest(key)
         /\ xs[b] \in Range(result)

\* C3: every returned posting has the id that the first posting of its key had
\* in the input, however many times the winner was replaced.
C3_FirstSeenId ==
  d_pc = "once" =>
    \A r \in Range(result) :
      jobs[r].id = jobs0[xs[FirstPosition(KeyOf(jobs[r]))]].id

\* a winner replaced twice: the returned posting is the third of its key and
\* carries the id of the first, which differs from the id it came with
C3_Witness ==
  /\ d_pc = "once"
  /\ \E a, b, c \in Replacers \cup { FirstPosition(key) : key \in InputKeys } :
       /\ a < b /\ b < c
       /\ InputKey(a) = InputKey(b) /\ InputKey(b) = InputKey(c)
       /\ b \in Replacers /\ c \in Replacers
       /\ xs[c] \in Range(result)
       /\ jobs0[xs[c]].id # jobs0[xs[a]].id
       /\ jobs[xs[c]].id = jobs0[xs[a]].id

\* C4: the result holds exactly one posting per dedup key of the input, ordered
\* by the position at which each key first appears in the input.
C4_OnePerKeyInFirstSeenOrder ==
  d_pc = "once" =>
    /\ Len(result) = Cardinality(InputKeys)
    /\ { KeyOf(jobs[r]) : r \in Range(result) } = InputKeys
    /\ \A a, b \in 1..Len(result) :
         a < b => FirstPosition(KeyOf(jobs[result[a]])) < FirstPosition(KeyOf(jobs[result[b]]))

\* two keys, the first of which has its winner replaced by a posting that comes
\* after the first posting of the second key
C4_Witness ==
  /\ d_pc = "once"
  /\ Len(result) = 2
  /\ \E k \in Replacers :
       /\ xs[k] = result[1]
       /\ k > FirstPosition(KeyOf(jobs[result[2]]))

\* C5: deduplicate leaves the input list as it was and changes no field of any
\* input posting, except the id of a posting that replaced an earlier winner,
\* which becomes the id of the first posting of its key; an empty input gives
\* an empty result.
C5_Frame ==
  d_pc = "once" =>
    /\ xs = [k \in 1..Len(jobs0) |-> k]
    /\ Len(jobs) = Len(jobs0)
    /\ \A k \in 1..Len(xs) :
         /\ jobs[xs[k]] = [jobs0[xs[k]] EXCEPT !.id = jobs[xs[k]].id]
         /\ k \notin Replacers => jobs[xs[k]].id = jobs0[xs[k]].id
         /\ k \in Replacers => jobs[xs[k]].id = jobs0[xs[FirstPosition(InputKey(k))]].id
    /\ xs = <<>> => result = <<>>

\* a posting that replaced the winner and was replaced in turn: it is not
\* returned, and its id was overwritten
C5_Witness ==
  /\ d_pc = "once"
  /\ \E k \in Replacers :
       /\ xs[k] \notin Range(result)
       /\ jobs[xs[k]].id # jobs0[xs[k]].id
       /\ jobs[xs[k]].description = jobs0[xs[k]].description

----------------------------------------------------------------------------
(* matcher/keywords.py: _word_match *)

\* position p of text (between its characters p-1 and p) is a \b word boundary
WordBoundary(text, p) ==
  (p > 1 /\ IsWordChar(text[p - 1])) # (p =< Len(text) /\ IsWordChar(text[p]))

\* re.search(rf"\b{re.escape(kw)}\b", text)
SearchWord(kw, text) ==
  \E k \in 0..(Len(text) - Len(kw)) :
    /\ SubSeq(text, k + 1, k + Len(kw)) = kw
    /\ WordBoundary(text, k + 1)
    /\ WordBoundary(text, k + Len(kw) + 1)

\* keyword.isalnum(): not empty, and every character alphanumeric
IsAlnum(s) == s # <<>> /\ \A k \in 1..Len(s) : IsAlnumChar(s[k])

\* a matcher that looks for every keyword as a substring
_word_match_substring(keyword, text) == Contains(Lower(text), Lower(keyword))

_word_match(keyword, text) ==
  LET text_lower == Lower(text)
      kw_lower == Lower(keyword)
  IN IF (\E k \in 1..Len(keyword) : keyword[k] = " ") \/ ~IsAlnum(keyword)
     THEN Contains(text_lower, kw_lower)
     ELSE SearchWord(kw_lower, text_lower)

(* Keywords and texts given to _word_match *)

WordTerms ==
  { <<"s","q","l">>, <<"S","q","l">>, <<"r">>, <<"g","o","2">>, <<"c","+","+">>, <<"c","i","/","c","d">>, <<"a","_","b">>, <<"m","a","c","h","i","n","e"," ","l","e","a","r","n","i","n","g">>, <<>> }

\* an occurrence of a term, or something close to one, with every combination
\* of what may stand right before and right after it; and the texts of the tests
WordTexts ==
  LET contexts == { <<>>, <<" ">>, <<"a">>, <<"Z">>, <<"_">>, <<"1">>, <<"-">>, <<"+">> }
      cores == { <<"s","q","l">>, <<"S","Q","L">>, <<"s","q">>, <<"R">>, <<"g","o","2">>, <<"C","+","+">>, <<"c","i","/","c","d">>, <<"A","_","b">>,
                 <<"M","a","c","h","i","n","e"," ","L","e","a","r","n","i","n","g">>, <<"m","a","c","h","i","n","e"," "," ","l","e","a","r","n","i","n","g">> }
  IN { pre \o core \o post : pre \in contexts, core \in cores, post \in contexts }
       \cup { <<>>, <<"W","e"," ","u","s","e"," ","P","o","s","t","g","r","e","S","Q","L">>, <<"E","x","p","e","r","i","e","n","c","e"," ","w","i","t","h"," ","S","Q","L"," ","r","e","q","u","i","r","e","d">>,
              <<"E","x","p","e","r","i","e","n","c","e"," ","w","i","t","h"," ","C","+","+"," ","r","e","q","u","i","r","e","d">>, <<"W","e"," ","n","e","e","d"," ","a"," ","m","a","c","h","i","n","e"," ","a","n","d"," ","s","o","m","e"," ","l","e","a","r","n","i","n","g">> }

InitWord ==
  /\ BatchIdle
  /\ CallIdle
  /\ DbIdle
  /\ DedupIdle
  /\ KwIdle
  /\ ScoreIdle
  /\ w_keyword \in WordTerms
  /\ w_text \in WordTexts
  /\ w_match = FALSE
  /\ w_pc = "start"

\* w_match = _word_match(w_keyword, w_text)
WordMatch ==
  /\ w_pc = "start"
  /\ w_match' = _word_match(w_keyword, w_text)
  /\ w_pc' = "done"
  /\ UNCHANGED <<w_keyword, w_text, dedupVars, kwVars, scoreVars, batchVars, callVars, dbVars>>

NextWord == WordMatch

SpecWord == InitWord /\ [][NextWord]_vars

----------------------------------------------------------------------------
(* Properties of _word_match *)

\* the term, whatever its case, stands in the text from position k on
OccursAt(term, text, k) ==
  /\ k + Len(term) - 1 =< Len(text)
  /\ \A i \in 1..Len(term) : LowerChar(text[k + i - 1]) = LowerChar(term[i])

\* the occurrence at k is not part of a longer word: no letter, digit or
\* underscore stands right before it or right after it
Delimited(term, text, k) ==
  /\ k = 1 \/ ~IsWordChar(text[k - 1])
  /\ k + Len(term) > Len(text) \/ ~IsWordChar(text[k + Len(term)])

HasNonAlnumChar(term) == \E k \in 1..Len(term) : ~IsAlnumChar(term[k])

\* C6: a term with a space or another non-alphanumeric character matches
\* exactly when it occurs in the text, case-insensitively; an alphanumeric term
\* matches exactly when one of its occurrences is delimited by word boundaries.
C6_WordMatchRule ==
  w_pc = "done" =>
    /\ HasNonAlnumChar(w_keyword) =>
         (w_match <=> \E k \in 1..Len(w_text) : OccursAt(w_keyword, w_text, k))
    /\ IsAlnum(w_keyword) =>
         (w_match <=> \E k \in 1..Len(w_text) :
                        OccursAt(w_keyword, w_text, k) /\ Delimited(w_keyword, w_text, k))

\* "sql" was looked for in "We use PostgreSQL", where it occurs inside a longer
\* word only, and was not found
C6_Witness ==
  /\ w_pc = "done"
  /\ w_keyword = <<"s","q","l">>
  /\ w_text = <<"W","e"," ","u","s","e"," ","P","o","s","t","g","r","e","S","Q","L">>
  /\ \E k \in 1..Len(w_text) : OccursAt(w_keyword, w_text, k)
  /\ ~w_match

----------------------------------------------------------------------------
(* matcher/keywords.py: extract_keywords *)

TECH_KEYWORDS ==
  { <<"a","g","i","l","e">>,
    <<"a","n","g","u","l","a","r">>,
    <<"a","p","i">>,
    <<"a","w","s">>,
    <<"a","z","u","r","e">>,
    <<"b","e","r","t">>,
    <<"c","#">>,
    <<"c","+","+">>,
    <<"c","i","/","c","d">>,
    <<"c","l","o","u","d">>,
    <<"c","o","m","p","u","t","e","r"," ","v","i","s","i","o","n">>,
    <<"c","u","d","a">>,
    <<"d","a","t","a"," ","e","n","g","i","n","e","e","r","i","n","g">>,
    <<"d","a","t","a"," ","s","c","i","e","n","c","e">>,
    <<"d","e","e","p"," ","l","e","a","r","n","i","n","g">>,
    <<"d","j","a","n","g","o">>,
    <<"d","o","c","k","e","r">>,
    <<"e","l","a","s","t","i","c","s","e","a","r","c","h">>,
    <<"f","a","s","t","a","p","i">>,
    <<"f","l","a","s","k">>,
    <<"g","c","p">>,
    <<"g","i","t">>,
    <<"g","o">>,
    <<"g","p","t">>,
    <<"g","r","a","p","h","q","l">>,
    <<"j","a","v","a">>,
    <<"j","a","v","a","s","c","r","i","p","t">>,
    <<"k","e","r","a","s">>,
    <<"k","o","t","l","i","n">>,
    <<"k","u","b","e","r","n","e","t","e","s">>,
    <<"l","a","n","g","c","h","a","i","n">>,
    <<"l","i","n","u","x">>,
    <<"l","l","m">>,
    <<"m","a","c","h","i","n","e"," ","l","e","a","r","n","i","n","g">>,
    <<"m","a","t","l","a","b">>,
    <<"m","a","t","p","l","o","t","l","i","b">>,
    <<"m","i","c","r","o","s","e","r","v","i","c","e","s">>,
    <<"m","l","o","p","s">>,
    <<"m","o","n","g","o","d","b">>,
    <<"m","y","s","q","l">>,
    <<"n","a","t","u","r","a","l"," ","l","a","n","g","u","a","g","e"," ","p","r","o","c","e","s","s","i","n","g">>,
    <<"n","l","p">>,
    <<"n","o","d","e">>,
    <<"n","u","m","p","y">>,
    <<"o","n","n","x">>,
    <<"p","a","n","d","a","s">>,
    <<"p","h","p">>,
    <<"p","o","s","t","g","r","e","s","q","l">>,
    <<"p","y","t","h","o","n">>,
    <<"p","y","t","o","r","c","h">>,
    <<"r">>,
    <<"r","a","g">>,
    <<"r","e","a","c","t">>,
    <<"r","e","d","i","s">>,
    <<"r","e","i","n","f","o","r","c","e","m","e","n","t"," ","l","e","a","r","n","i","n","g">>,
    <<"r","e","s","t">>,
    <<"r","u","b","y">>,
    <<"r","u","s","t">>,
    <<"s","c","a","l","a">>,
    <<"s","c","i","k","i","t","-","l","e","a","r","n">>,
    <<"s","c","i","p","y">>,
    <<"s","c","r","u","m">>,
    <<"s","k","l","e","a","r","n">>,
    <<"s","q","l">>,
    <<"s","w","i","f","t">>,
    <<"t","e","n","s","o","r","f","l","o","w">>,
    <<"t","e","n","s","o","r","r","t">>,
    <<"t","r","a","n","s","f","o","r","m","e","r">>,
    <<"t","y","p","e","s","c","r","i","p","t">>,
    <<"v","u","e">> }

\* the least string of a non-empty set, in Python's str ordering
LeastStr(S) == CHOOSE s \in S : \A t \in S \ {s} : StrLess(s, t)

\* sorted(S) of a set of strings
RECURSIVE Sorted(_)
Sorted(S) ==
  IF S = {} THEN <<>>
  ELSE <<LeastStr(S)>> \o Sorted(S \ {LeastStr(S)})

SeqRange(seq) == { seq[k] : k \in 1..Len(seq) }

\* the loop over profile.skills.technical, from skill k on: found is a list
RECURSIVE FoundSkills(_, _, _, _)
FoundSkills(found, skills, text, k) ==
  IF k > Len(skills) THEN found
  ELSE LET name_lower == Lower(skills[k].name)
       IN IF name_lower \notin SeqRange(found) /\ _word_match(name_lower, text)
          THEN FoundSkills(Append(found, name_lower), skills, text, k + 1)
          ELSE FoundSkills(found, skills, text, k + 1)

\* The loop over the set TECH_KEYWORDS appends in the set's iteration order;
\* the list is sorted before it is returned, so one order stands for all.
_extract_keywords_regex(description, profile) ==
  LET text == Lower(description)
      tech == Sorted({ kw \in TECH_KEYWORDS : _word_match(kw, text) })
      found == IF profile.present THEN FoundSkills(tech, profile.skills, text, 1) ELSE tech
  IN Sorted(SeqRange(found))

(* Descriptions and profiles given to extract_keywords *)

\* a Skill with the default priority
Skill(name, tags) == [name |-> name, tags |-> tags, priority |-> 1]

NoProfile == [present |-> FALSE, titles |-> <<>>, skills |-> <<>>, experience |-> <<>>]

EmptyProfile == [present |-> TRUE, titles |-> <<>>, skills |-> <<>>, experience |-> <<>>]

SampleProfile ==
  [present |-> TRUE,
   titles |-> << <<"A","I"," ","E","n","g","i","n","e","e","r">>, <<"B","S","c"," ","M","a","t","h","e","m","a","t","i","c","s">> >>,
   skills |-> << Skill(<<"P","y","t","h","o","n">>, << <<"a","l","l">> >>),
                 Skill(<<"P","y","T","o","r","c","h">>, << <<"m","l">>, <<"a","i">> >>),
                 Skill(<<"S","Q","L">>, << <<"a","l","l">>, <<"d","a","t","a">> >>),
                 Skill(<<"E","l","i","x","i","r">>, << >>),
                 Skill(<<"N","o","d","e",".","j","s">>, << <<"w","e","b">> >>) >>,
   experience |-> << [title |-> <<"A","I"," ","E","n","g","i","n","e","e","r">>],
                     [title |-> <<"T","e","c","h","n","i","c","a","l"," ","B","u","s","i","n","e","s","s"," ","A","n","a","l","y","s","t">>] >>]

KwProfiles == { NoProfile, EmptyProfile, SampleProfile }

KwDescriptions ==
  { <<>>, <<"P","y","t","h","o","n"," ","a","n","d"," ","S","Q","L">>, <<"W","e"," ","u","s","e"," ","P","o","s","t","g","r","e","S","Q","L">>, <<"C","+","+",","," ","c","i","/","c","d",","," ","G","o">>,
    <<"m","a","c","h","i","n","e"," ","l","e","a","r","n","i","n","g"," ","i","n"," ","R">>, <<"E","l","i","x","i","r"," ","o","r"," ","N","o","d","e",".","j","s">>, <<"t","e","a","m"," ","p","l","a","y","e","r">> }

\* _extract_keywords_regex of every modelled description and profile, computed once
RegexKeywordsTable ==
  [d \in KwDescriptions, p \in KwProfiles |-> _extract_keywords_regex(d, p)]

\* a capability is used whenever one is supplied
UsesLLMIgnoringAvailable(llm) == llm.present

\* llm_client is not None and getattr(llm_client, "available", False)
UsesLLM(llm) == llm.present /\ llm.available = "true"

\* a merge that adds the keyword as the capability spelled it
MergeItemNoLower(merged, item) == merged \cup {item.s}

\* merged.add(kw.lower())
MergeItem(merged, item) == merged \cup {Lower(item.s)}

\* one of the three "for kw in llm_result.<field>" loops, from item k on;
\* acc.failed: an exception was raised (a missing attribute, an item with no
\* lower method)
RECURSIVE MergeField(_, _, _)
MergeField(acc, field, k) ==
  IF acc.failed THEN acc
  ELSE IF ~field.present THEN [acc EXCEPT !.failed = TRUE]
  ELSE IF k > Len(field.items) THEN acc
  ELSE IF ~field.items[k].isstr THEN [acc EXCEPT !.failed = TRUE]
  ELSE MergeField([acc EXCEPT !.merged = MergeItem(acc.merged, field.items[k])], field, k + 1)

\* the body of the try block, given what invoke_structured did
MergeLLM(regex_keywords, resp) ==
  IF resp.kind # "object"
  THEN [failed |-> TRUE, merged |-> SeqRange(regex_keywords)]
  ELSE MergeField(
         MergeField(
           MergeField([failed |-> FALSE, merged |-> SeqRange(regex_keywords)],
                      resp.keywords, 1),
           resp.required_skills, 1),
         resp.nice_to_have_skills, 1)

\* a handler that returns what was merged before the failure
LLMBranchPartial(regex_keywords, resp) ==
  LET m == MergeLLM(regex_keywords, resp)
  IN [returned |-> TRUE, out |-> Sorted(m.merged), raised |-> FALSE]

\* try: ... return sorted(merged); except Exception: log and fall through
LLMBranch(regex_keywords, resp) ==
  LET m == MergeLLM(regex_keywords, resp)
  IN IF m.failed
     THEN [returned |-> FALSE, out |-> <<>>, raised |-> FALSE]
     ELSE [returned |-> TRUE, out |-> Sorted(m.merged), raised |-> FALSE]

NoCalls == [invoke |-> 0, invoke_structured |-> 0]

\* extract_keywords(description, profile, llm_client), where resp is what the
\* capability does if invoke_structured is called
extract_keywords(description, profile, llm, resp) ==
  CHOOSE r \in
    { IF UsesLLM(llm)
      THEN LET b == LLMBranch(regex_keywords, resp)
           IN [out |-> IF b.returned THEN b.out ELSE regex_keywords,
               raised |-> b.raised,
               calls |-> [NoCalls EXCEPT !.invoke_structured = 1]]
      ELSE [out |-> regex_keywords, raised |-> FALSE, calls |-> NoCalls] :
      regex_keywords \in
        { IF description \in KwDescriptions /\ profile \in KwProfiles
          THEN RegexKeywordsTable[description, profile]
          ELSE _extract_keywords_regex(description, profile) } } : TRUE

(* Behaviours of the capability *)

\* llm_client: None, or an object whose available attribute is true, false or missing
LLMClients ==
  { [present |-> FALSE, available |-> "absent"] }
    \cup { [present |-> TRUE, available |-> a] : a \in {"true", "false", "absent"} }

StrItem(s) == [isstr |-> TRUE, s |-> s]

\* an item that is not a str, such as None
NonStrItem == [isstr |-> FALSE, s |-> <<>>]

\* one attribute of the result: missing, or a list
LLMFields ==
  { [present |-> FALSE, items |-> <<>>],
    [present |-> TRUE, items |-> <<>>],
    [present |-> TRUE, items |-> << StrItem(<<"G","o">>) >>],
    [present |-> TRUE, items |-> << StrItem(<<"z","i","g">>), StrItem(<<"Z","i","g">>) >>],
    [present |-> TRUE, items |-> << StrItem(<<"r","u","s","t">>), NonStrItem >>] }

NoField == [present |-> FALSE, items |-> <<>>]

\* invoke_structured raises, returns None, or returns an object
LLMResponses ==
  { [kind |-> k, keywords |-> NoField, required_skills |-> NoField,
     nice_to_have_skills |-> NoField] : k \in {"raise", "none"} }
    \cup [kind : {"object"}, keywords : LLMFields, required_skills : LLMFields,
          nice_to_have_skills : LLMFields]

NotCalled ==
  [kind |-> "not called", keywords |-> NoField, required_skills |-> NoField,
   nice_to_have_skills |-> NoField]

InitKw ==
  /\ BatchIdle
  /\ CallIdle
  /\ DbIdle
  /\ DedupIdle
  /\ WordIdle
  /\ ScoreIdle
  /\ k_description \in KwDescriptions
  /\ k_profile \in KwProfiles
  /\ k_llm \in LLMClients
  /\ k_response = NotCalled
  /\ k_calls = NoCalls
  /\ k_out = <<>>
  /\ k_raised = FALSE
  /\ k_pc = "start"

\* k_out = extract_keywords(k_description, k_profile, k_llm)
ExtractKeywords ==
  /\ k_pc = "start"
  /\ \E resp \in LLMResponses :
       LET r == extract_keywords(k_description, k_profile, k_llm, resp)
       IN /\ k_out' = r.out
          /\ k_raised' = r.raised
          /\ k_calls' = r.calls
          /\ k_response' = IF r.calls.invoke_structured > 0 THEN resp ELSE NotCalled
  /\ k_pc' = "done"
  /\ UNCHANGED <<k_description, k_profile, k_llm, dedupVars, wordVars, scoreVars, batchVars, callVars, dbVars>>

NextKw == ExtractKeywords

SpecKw == InitKw /\ [][NextKw]_vars

----------------------------------------------------------------------------
(* Properties of extract_keywords *)

\* the capability raised, or returned something that is no well-formed result:
\* None, an object that lacks one of the three lists, a list with a non-str item
LLMFailed(resp) ==
  \/ resp.kind \in {"raise", "none"}
  \/ /\ resp.kind = "object"
     /\ \E f \in {resp.keywords, resp.required_skills, resp.nice_to_have_skills} :
          ~f.present \/ \E k \in 1..Len(f.items) : ~f.items[k].isstr

\* C7: whatever the description, the profile and the capability, the returned
\* list is sorted ascending, has no duplicate and holds lowercase strings only.
C7_SortedDedupLower ==
  k_pc = "done" =>
    /\ \A a, b \in 1..Len(k_out) : a < b => ~StrLess(k_out[b], k_out[a])
    /\ \A a, b \in 1..Len(k_out) : a < b => k_out[a] # k_out[b]
    /\ \A a \in 1..Len(k_out) : Lower(k_out[a]) = k_out[a]

\* the capability succeeded with "Go" (not lowercase, and the same keyword as
\* one the patterns found) and "zig", "Zig" (the same once lowercased)
C7_Witness ==
  /\ k_pc = "done"
  /\ k_response.kind = "object"
  /\ ~LLMFailed(k_response)
  /\ k_response.keywords.items = << StrItem(<<"G","o">>) >>
  /\ k_response.required_skills.items = << StrItem(<<"z","i","g">>), StrItem(<<"Z","i","g">>) >>
  /\ <<"g","o">> \in SeqRange(_extract_keywords_regex(k_description, k_profile))
  /\ <<"z","i","g">> \in SeqRange(k_out)
  /\ Len(k_out) >= 4

\* C8: when an available capability raises or returns a malformed result,
\* extract_keywords raises nothing and returns the pattern-matching result.
C8_FailureFallsBack ==
  (k_pc = "done" /\ k_calls.invoke_structured > 0 /\ LLMFailed(k_response)) =>
    /\ ~k_raised
    /\ k_out = _extract_keywords_regex(k_description, k_profile)

\* the result had a well-formed keywords list with a new keyword, and a later
\* list that is malformed: the new keyword is not in the returned list
C8_Witness ==
  /\ k_pc = "done"
  /\ k_calls.invoke_structured = 1
  /\ k_response.kind = "object"
  /\ k_response.keywords.items = << StrItem(<<"z","i","g">>), StrItem(<<"Z","i","g">>) >>
  /\ k_response.required_skills.items = << StrItem(<<"r","u","s","t">>), NonStrItem >>
  /\ k_out # <<>>
  /\ <<"z","i","g">> \notin SeqRange(k_out)

\* C9: with no capability, or one that does not report itself available,
\* extract_keywords calls neither invoke nor invoke_structured and returns the
\* pattern-matching result.
C9_UnavailableNotCalled ==
  (k_pc = "done" /\ (~k_llm.present \/ k_llm.available # "true")) =>
    /\ k_calls = NoCalls
    /\ k_out = _extract_keywords_regex(k_description, k_profile)

\* a capability was supplied that reports available = false
C9_Witness ==
  /\ k_pc = "done"
  /\ k_llm.present
  /\ k_llm.available = "false"
  /\ k_calls = NoCalls
  /\ k_out # <<>>

----------------------------------------------------------------------------
(* matcher/scorer.py *)

\* A score is a rational number n/d with d > 0; the rounding error of the
\* float arithmetic is far below the 0.0005 that round(x, 3) decides on.
Frac(n, d) == [n |-> n, d |-> d]

FracLeq(a, b) == a.n * b.d =< b.n * a.d

\* max(a, b)
FracMax(a, b) == IF FracLeq(b, a) THEN a ELSE b

Abs(i) == IF i < 0 THEN -i ELSE i

\* round(x, 3), in thousandths: the nearest one; where x lies half way between
\* two, the float may fall on either side
Round3(x) ==
  LET q == (1000 * x.n) \div x.d
  IN { m \in {q, q + 1} : 2 * Abs(1000 * x.n - m * x.d) =< x.d }

\* re.findall(r"\w+", s): cur is the word being read, acc the words read
RECURSIVE FindAllWords(_, _, _)
FindAllWords(s, cur, acc) ==
  IF s = <<>> THEN (IF cur = <<>> THEN acc ELSE acc \cup {cur})
  ELSE IF IsWordChar(Head(s)) THEN FindAllWords(Tail(s), Append(cur, Head(s)), acc)
  ELSE FindAllWords(Tail(s), <<>>, IF cur = <<>> THEN acc ELSE acc \cup {cur})

\* set(re.findall(r"\w+", title.lower()))
TitleWords(title) == FindAllWords(Lower(title), <<>>, {})

SkillNames(profile) == { Lower(profile.skills[k].name) : k \in 1..Len(profile.skills) }

SkillTags(profile) ==
  UNION { { Lower(profile.skills[k].tags[t]) : t \in 1..Len(profile.skills[k].tags) } :
          k \in 1..Len(profile.skills) }

\* only the skill names are matchable terms
_keyword_match_score_names_only(job_keywords, profile) ==
  IF job_keywords = <<>> THEN Frac(0, 1)
  ELSE LET profile_skills == SkillNames(profile)
           matches == Cardinality({ k \in 1..Len(job_keywords) : job_keywords[k] \in profile_skills })
       IN Frac(matches, Len(job_keywords))

_keyword_match_score(job_keywords, profile) ==
  IF job_keywords = <<>> THEN Frac(0, 1)
  ELSE LET profile_skills == SkillNames(profile) \cup SkillTags(profile)
           matches == Cardinality({ k \in 1..Len(job_keywords) : job_keywords[k] \in profile_skills })
       IN Frac(matches, Len(job_keywords))

\* the loop over reference_titles, from title k on
RECURSIVE BestTitleScore(_, _, _, _)
BestTitleScore(job_words, reference_titles, k, best_score) ==
  IF k > Len(reference_titles) THEN best_score
  ELSE LET title_words == TitleWords(reference_titles[k])
       IN IF title_words = {}
          THEN BestTitleScore(job_words, reference_titles, k + 1, best_score)
          ELSE LET overlap == Cardinality(job_words \cap title_words)
                   union == Cardinality(job_words \cup title_words)
                   score == IF union # 0 THEN Frac(overlap, union) ELSE Frac(0, 1)
               IN BestTitleScore(job_words, reference_titles, k + 1, FracMax(best_score, score))

_title_match_score(job_title, profile) ==
  LET job_words == TitleWords(job_title)
      reference_titles ==
        profile.titles \o [k \in 1..Len(profile.experience) |-> profile.experience[k].title]
  IN IF job_words = {} THEN Frac(0, 1)
     ELSE BestTitleScore(job_words, reference_titles, 1, Frac(0, 1))

_skills_overlap_score(job_keywords, profile) ==
  LET profile_skills == SkillNames(profile)
      job_skills == SeqRange(job_keywords)
  IN IF job_skills = {} /\ profile_skills = {} THEN Frac(0, 1)
     ELSE Frac(Cardinality(job_skills \cap profile_skills),
               Cardinality(job_skills \cup profile_skills))

known_locations ==
  << <<"m","a","d","r","i","d">>, <<"l","o","n","d","o","n">>, <<"e","d","i","n","b","u","r","g","h">>, <<"s","p","a","i","n">>, <<"u","k">>, <<"r","e","m","o","t","e">>, <<"r","e","m","o","t","o">>,
     <<"e","s","p","a","ñ","a">>, <<"r","e","i","n","o"," ","u","n","i","d","o">>, <<"e","d","i","m","b","u","r","g","o">>, <<"l","o","n","d","r","e","s">> >>

\* the second argument is the profile, which is not looked at
_location_match_score(job_location, profile) ==
  IF job_location = <<>> THEN Frac(1, 2)
  ELSE LET job_loc == Lower(job_location)
       IN IF Contains(job_loc, <<"r","e","m","o","t","e">>) \/ Contains(job_loc, <<"r","e","m","o","t","o">>) THEN Frac(1, 1)
          ELSE IF \E k \in 1..Len(known_locations) : Contains(job_loc, known_locations[k])
               THEN Frac(1, 1)
               ELSE Frac(0, 1)

\* the keyword weight applied to all four sub-scores
WeightedTotalKeywordWeight(weights, kw, title, skills, loc) ==
  Frac(  weights.keyword_match * kw.n * title.d * skills.d * loc.d
       + weights.keyword_match * title.n * kw.d * skills.d * loc.d
       + weights.keyword_match * skills.n * kw.d * title.d * loc.d
       + weights.keyword_match * loc.n * kw.d * title.d * skills.d,
       1000 * kw.d * title.d * skills.d * loc.d)

\* weights.keyword_match * kw_score + ... ; the weights are in thousandths
WeightedTotal(weights, kw, title, skills, loc) ==
  Frac(  weights.keyword_match * kw.n * title.d * skills.d * loc.d
       + weights.title_match * title.n * kw.d * skills.d * loc.d
       + weights.skills_overlap * skills.n * kw.d * title.d * loc.d
       + weights.location_match * loc.n * kw.d * title.d * skills.d,
       1000 * kw.d * title.d * skills.d * loc.d)

Thousandths(m) == Frac(m, 1000)

NoClient == [present |-> FALSE, available |-> "absent"]

\* score_job(job, profile, config): the (score, details) pairs it can return
score_job(job, profile, config) ==
  UNION {
    UNION {
      { [score |-> Thousandths(t),
         details |-> [keyword_match |-> Thousandths(k),
                      title_match |-> Thousandths(ti),
                      skills_overlap |-> Thousandths(sk),
                      location_match |-> Thousandths(lo),
                      job_keywords |-> job_keywords,
                      total |-> Thousandths(t)]] :
        <<k, ti, sk, lo, t>> \in
          Round3(kw_score) \X Round3(title_score) \X Round3(skills_score)
            \X Round3(loc_score)
            \X Round3(WeightedTotal(config.weights, kw_score, title_score,
                                    skills_score, loc_score)) } :
      kw_score \in { _keyword_match_score(job_keywords, profile) },
      title_score \in { _title_match_score(job.title, profile) },
      skills_score \in { _skills_overlap_score(job_keywords, profile) },
      loc_score \in { _location_match_score(job.location, profile) } } :
    job_keywords \in { extract_keywords(job.description, profile, NoClient, NotCalled).out } }

(* Postings, profiles and configurations given to score_job *)

\* Job objects: title, description and location are the fields score_job reads
ScoreJobs ==
  [title : { <<>>, <<"A","I"," ","E","n","g","i","n","e","e","r">>, <<"S","e","n","i","o","r"," ","A","I"," ","E","n","g","i","n","e","e","r">>, <<"C","h","e","f">> },
   description : { <<>>, <<"P","y","t","h","o","n"," ","a","n","d"," ","S","Q","L">>, <<"E","l","i","x","i","r"," ","o","r"," ","N","o","d","e",".","j","s">>, <<"t","e","a","m"," ","p","l","a","y","e","r">> },
   location : { <<>>, <<"R","e","m","o","t","e">>, <<"M","a","d","r","i","d",","," ","S","p","a","i","n">>, <<"T","o","k","y","o",","," ","J","a","p","a","n">>, <<"M","i","l","w","a","u","k","e","e">> }]

ScoreProfiles == { EmptyProfile, SampleProfile }

\* ScoringWeights, in thousandths: the defaults, the weights of
\* test_custom_weights, and weights that do not sum to 1
WeightSets ==
  { [keyword_match |-> 350, title_match |-> 250, skills_overlap |-> 250, location_match |-> 150],
    [keyword_match |-> 1000, title_match |-> 0, skills_overlap |-> 0, location_match |-> 0],
    [keyword_match |-> 1000, title_match |-> 1000, skills_overlap |-> 1000, location_match |-> 1000] }

ScoringConfigs == { [weights |-> w] : w \in WeightSets }

InitScore ==
  /\ BatchIdle
  /\ CallIdle
  /\ DbIdle
  /\ DedupIdle
  /\ WordIdle
  /\ KwIdle
  /\ s_job \in ScoreJobs
  /\ s_profile \in ScoreProfiles
  /\ s_config \in ScoringConfigs
  /\ s_score = Frac(0, 1)
  /\ s_details = <<>>
  /\ s_raised = FALSE
  /\ s_pc = "start"

\* s_score, s_details = score_job(s_job, s_profile, s_config)
ScoreJob ==
  /\ s_pc = "start"
  /\ \E r \in score_job(s_job, s_profile, s_config) :
       /\ s_score' = r.score
       /\ s_details' = r.details
  /\ s_raised' = FALSE
  /\ s_pc' = "done"
  /\ UNCHANGED <<s_job, s_profile, s_config, dedupVars, wordVars, kwVars, batchVars, callVars, dbVars>>

NextScore == ScoreJob

SpecScore == InitScore /\ [][NextScore]_vars

----------------------------------------------------------------------------
(* Properties of score_job *)

InUnitInterval(x) == 0 =< x.n /\ x.n =< x.d

\* x is a whole number of thousandths
IsRounded3(x) == (1000 * x.n) % x.d = 0

SubScores(details) ==
  { details.keyword_match, details.title_match, details.skills_overlap,
    details.location_match }

\* the four sub-scores lie in [0,1] and are rounded to 3 decimals
SubScoresInRange ==
  s_pc = "done" =>
    \A x \in SubScores(s_details) : InUnitInterval(x) /\ IsRounded3(x)

\* C10: for every posting, profile and scoring configuration, score_job
\* completes without error, and the four sub-scores and the total lie in [0,1]
\* and equal their own rounding to 3 decimals.
C10_ScoresInUnitInterval ==
  s_pc = "done" =>
    /\ ~s_raised
    /\ \A x \in SubScores(s_details) \cup {s_details.total, s_score} :
         InUnitInterval(x) /\ IsRounded3(x)

RECURSIVE Gcd(_, _)
Gcd(a, b) == IF b = 0 THEN a ELSE Gcd(b, a % b)

\* n/d in lowest terms
Reduced(n, d) == LET g == Gcd(Abs(n), d) IN Frac(n \div g, d \div g)

FracAdd(a, b) == Reduced(a.n * b.d + b.n * a.d, a.d * b.d)

\* w thousandths of x
FracScale(w, x) == Reduced(w * x.n, 1000 * x.d)

FracEq(a, b) == a.n * b.d = b.n * a.d

\* y is x rounded to 3 decimals: a whole number of thousandths, and no other
\* one is nearer to x
IsRound3Of(y, x) ==
  /\ IsRounded3(y)
  /\ 2 * Abs(((1000 * y.n) \div y.d) * x.d - 1000 * x.n) =< x.d

\* C11: the score returned by score_job is the sum of the four sub-scores, each
\* multiplied by its weight in the supplied configuration, rounded to 3
\* decimals; it equals the "total" entry of the breakdown; with weights
\* (1,0,0,0) it equals the breakdown's keyword_match entry.
C11_WeightedSum ==
  s_pc = "done" =>
    LET w == s_config.weights
        job_keywords == _extract_keywords_regex(s_job.description, s_profile)
        sum == FracAdd(FracAdd(FracScale(w.keyword_match,
                                         _keyword_match_score(job_keywords, s_profile)),
                               FracScale(w.title_match,
                                         _title_match_score(s_job.title, s_profile))),
                       FracAdd(FracScale(w.skills_overlap,
                                         _skills_overlap_score(job_keywords, s_profile)),
                               FracScale(w.location_match,
                                         _location_match_score(s_job.location, s_profile))))
    IN /\ IsRound3Of(s_score, sum)
       /\ s_score = s_details.total
       /\ (w = [keyword_match |-> 1000, title_match |-> 0,
                skills_overlap |-> 0, location_match |-> 0])
            => FracEq(s_score, s_details.keyword_match)

\* the default weights 0.35, 0.25, 0.25, 0.15 on four different sub-scores
\* 1.0, 0.667, 0.4 and 0.5: the score is 0.692
C11_Witness ==
  /\ s_pc = "done"
  /\ s_config.weights = [keyword_match |-> 350, title_match |-> 250,
                         skills_overlap |-> 250, location_match |-> 150]
  /\ s_details.keyword_match = Thousandths(1000)
  /\ s_details.title_match = Thousandths(667)
  /\ s_details.skills_overlap = Thousandths(400)
  /\ s_details.location_match = Thousandths(500)
  /\ s_score = Thousandths(692)

----------------------------------------------------------------------------
(* Calls of single functions of matcher/scorer.py and cv/module_selector.py *)

\* LocationConfig: the defaults, the lists of test_custom_config_locations and
\* the abbreviations of test_abbreviation_expansion (a dict, as its items)
LocationConfigs ==
  LET preferred == << <<"m","a","d","r","i","d">>, <<"l","o","n","d","o","n">>, <<"e","d","i","n","b","u","r","g","h">>, <<"s","p","a","i","n">>, <<"u","k">> >>
      preferred_es == << <<"e","s","p","a","ñ","a">>, <<"r","e","i","n","o"," ","u","n","i","d","o">>, <<"e","d","i","m","b","u","r","g","o">>, <<"l","o","n","d","r","e","s">> >>
      remote_keywords == << <<"r","e","m","o","t","e">>, <<"r","e","m","o","t","o">> >>
  IN { [preferred |-> preferred, preferred_es |-> preferred_es,
        remote_keywords |-> remote_keywords, abbreviations |-> <<>>],
       [preferred |-> << <<"b","e","r","l","i","n">>, <<"m","u","n","i","c","h">> >>,
        preferred_es |-> << <<"b","e","r","l","í","n">>, <<"m","ú","n","i","c","h">> >>,
        remote_keywords |-> << <<"r","e","m","o","t","e">>, <<"t","e","l","e","t","r","a","b","a","j","o">> >>,
        abbreviations |-> <<>>],
       [preferred |-> preferred, preferred_es |-> preferred_es,
        remote_keywords |-> remote_keywords,
        abbreviations |-> << [key |-> <<"m","d">>, value |-> <<"m","a","d","r","i","d">>],
                             [key |-> <<"e","s">>, value |-> <<"s","p","a","i","n">>] >>] }

\* the scores dict of _detect_focus, in insertion order: each focus with its
\* indicator keywords and the phrases looked for in the title
FocusTable ==
  << [focus |-> "ml_focus",
      indicators |-> { <<"p","y","t","o","r","c","h">>, <<"t","e","n","s","o","r","f","l","o","w">>, <<"m","a","c","h","i","n","e"," ","l","e","a","r","n","i","n","g">>, <<"d","e","e","p"," ","l","e","a","r","n","i","n","g">>,
                       <<"c","o","m","p","u","t","e","r"," ","v","i","s","i","o","n">>, <<"n","l","p">>, <<"o","n","n","x">>, <<"c","u","d","a">>, <<"m","l">> },
      phrases |-> { <<"m","l">>, <<"m","a","c","h","i","n","e"," ","l","e","a","r","n","i","n","g">> }],
     [focus |-> "backend_focus",
      indicators |-> { <<"b","a","c","k","e","n","d">>, <<"a","p","i">>, <<"f","a","s","t","a","p","i">>, <<"d","j","a","n","g","o">>, <<"f","l","a","s","k">>,
                       <<"m","i","c","r","o","s","e","r","v","i","c","e","s">>, <<"d","o","c","k","e","r">>, <<"k","u","b","e","r","n","e","t","e","s">> },
      phrases |-> { <<"b","a","c","k","e","n","d">>, <<"s","o","f","t","w","a","r","e">> }],
     [focus |-> "data_focus",
      indicators |-> { <<"d","a","t","a"," ","s","c","i","e","n","c","e">>, <<"d","a","t","a"," ","e","n","g","i","n","e","e","r">>, <<"a","n","a","l","y","t","i","c","s">>, <<"p","a","n","d","a","s">>,
                       <<"s","t","a","t","i","s","t","i","c","s">>, <<"d","a","t","a">> },
      phrases |-> { <<"d","a","t","a">> }] >>

\* no focus: None where a focus label is expected
NoFocus == "None"

\* the last key with the greatest value
MaxKeyLast(scores) ==
  CHOOSE k \in DOMAIN scores :
    /\ \A j \in DOMAIN scores : scores[j] =< scores[k]
    /\ \A j \in DOMAIN scores : j > k => scores[j] < scores[k]

\* max(scores, key=scores.get): the first key, in insertion order, with the
\* greatest value
MaxKey(scores) ==
  CHOOSE k \in DOMAIN scores :
    /\ \A j \in DOMAIN scores : scores[j] =< scores[k]
    /\ \A j \in DOMAIN scores : j < k => scores[j] < scores[k]

_detect_focus(job_keywords, job_title) ==
  LET title_lower == Lower(job_title)
      scores == [k \in DOMAIN FocusTable |->
                   Cardinality(job_keywords \cap FocusTable[k].indicators)
                   + (IF \E p \in FocusTable[k].phrases : Contains(title_lower, p)
                      THEN 2 ELSE 0)]
      best == MaxKey(scores)
  IN IF scores[best] > 0 THEN FocusTable[best].focus ELSE NoFocus

\* a value where None may stand
Some(x) == [none |-> FALSE, value |-> x]

\* a variation counts when it is not None
IsNotNone(v) == ~v.none

\* the truth value of a str | None: neither None nor the empty string
Truthy(v) == ~v.none /\ v.value # ""

\* getattr(obj, name, None) on a model whose fields are those of obj
GetAttr(obj, name) == IF name \in DOMAIN obj THEN obj[name] ELSE None

_select_summary(profile, focus, language) ==
  LET summary == profile.personal.summary
      variation == GetAttr(summary.variations, focus)
  IN IF focus \notin {NoFocus, ""} /\ Truthy(variation)
     THEN variation.value
     ELSE summary.default

FracLess(a, b) == a.n * b.d < b.n * a.d

\* x goes before the items it ties with
RECURSIVE InsertByScoreBeforeTies(_, _)
InsertByScoreBeforeTies(acc, x) ==
  IF acc = <<>> THEN <<x>>
  ELSE IF FracLeq(Head(acc).score, x.score) THEN <<x>> \o acc
  ELSE <<Head(acc)>> \o InsertByScoreBeforeTies(Tail(acc), x)

\* x put into acc, which is in descending order of score: after every item
\* whose score is at least its own
RECURSIVE InsertByScore(_, _)
InsertByScore(acc, x) ==
  IF acc = <<>> THEN <<x>>
  ELSE IF FracLess(Head(acc).score, x.score) THEN <<x>> \o acc
  ELSE <<Head(acc)>> \o InsertByScore(Tail(acc), x)

\* list.sort(key=lambda x: x[1], reverse=True): descending and stable
RECURSIVE SortByScore(_, _)
SortByScore(items, acc) ==
  IF items = <<>> THEN acc
  ELSE SortByScore(Tail(items), InsertByScore(acc, Head(items)))

\* items[:n]; a negative n counts from the end
Take(items, n) ==
  SubSeq(items, 1, IF n < 0 THEN Len(items) + n
                   ELSE IF n < Len(items) THEN n ELSE Len(items))

\* the score _select_skills gives a skill: kw_match * 3 + tag_overlap + priority_bonus
SkillScore(skill, job_keywords) ==
  LET name_lower == Lower(skill.name)
      kw_match == IF name_lower \in job_keywords THEN 1 ELSE 0
      tags_lower == { Lower(skill.tags[t]) : t \in 1..Len(skill.tags) }
      count == IF Len(skill.tags) > 1 THEN Len(skill.tags) ELSE 1
      overlap == Cardinality(tags_lower \cap job_keywords)
  IN Frac(9 * kw_match * count + 3 * overlap + (4 - skill.priority) * count, 3 * count)

_select_skills(profile, job_keywords) ==
  LET scored_skills == [k \in 1..Len(profile.skills) |->
                          [name |-> profile.skills[k].name,
                           score |-> SkillScore(profile.skills[k], job_keywords)]]
      sorted == Take(SortByScore(scored_skills, <<>>), 15)
  IN [k \in 1..Len(sorted) |-> sorted[k].name]

MaxSkills == 3

\* the priority bonus given to every bullet, tagged or not
_score_bullet_always_bonus(bullet, job_keywords) ==
  LET tag_overlap == Cardinality({ Lower(bullet.tags[t]) : t \in 1..Len(bullet.tags) }
                                 \cap job_keywords)
  IN Frac(3 * tag_overlap + (4 - bullet.priority), 3)

_score_bullet(bullet, job_keywords) ==
  IF bullet.tags = <<>> THEN Frac(0, 1)
  ELSE LET tag_overlap == Cardinality({ Lower(bullet.tags[t]) : t \in 1..Len(bullet.tags) }
                                      \cap job_keywords)
       IN Frac(3 * tag_overlap + (4 - bullet.priority), 3)

\* x_es if language == "es" and x_es else x, for str fields
Localized(x_es, x, language) == IF language = "es" /\ x_es # "" THEN x_es ELSE x

\* the focus variation tried before the language-specific text
_get_bullet_text_variation_first(bullet, focus, language) ==
  LET variation == GetAttr(bullet.variations, focus)
  IN IF focus \notin {NoFocus, ""} /\ Truthy(variation)
     THEN variation.value
     ELSE IF language = "es" /\ bullet.text_es # "" THEN bullet.text_es
          ELSE bullet.text

_get_bullet_text(bullet, focus, language) ==
  IF language = "es" /\ bullet.text_es # "" THEN bullet.text_es
  ELSE LET variation == GetAttr(bullet.variations, focus)
       IN IF focus \notin {NoFocus, ""} /\ Truthy(variation)
          THEN variation.value
          ELSE bullet.text

\* the first max_bullets bullets in the order of the module
TailoredBulletsUnsorted(bullets, job_keywords, focus, language, max_bullets) ==
  LET scored_bullets == [k \in 1..Len(bullets) |->
                           [b |-> bullets[k],
                            score |-> _score_bullet(bullets[k], job_keywords)]]
      selected == Take(scored_bullets, max_bullets)
  IN [k \in 1..Len(selected) |->
        [id |-> selected[k].b.id,
         text |-> _get_bullet_text(selected[k].b, focus, language),
         relevance_score |-> selected[k].score]]

\* the bullets of a module scored, sorted and cut to max_bullets, as the three
\* _tailor_ functions do: a TailoredBullet for each one selected
TailoredBullets(bullets, job_keywords, focus, language, max_bullets) ==
  LET scored_bullets == [k \in 1..Len(bullets) |->
                           [b |-> bullets[k],
                            score |-> _score_bullet(bullets[k], job_keywords)]]
      selected == Take(SortByScore(scored_bullets, <<>>), max_bullets)
  IN [k \in 1..Len(selected) |->
        [id |-> selected[k].b.id,
         text |-> _get_bullet_text(selected[k].b, focus, language),
         relevance_score |-> selected[k].score]]

_tailor_experience(exp, job_keywords, focus, language, max_bullets) ==
  [id |-> exp.id,
   type |-> "experience",
   title |-> Localized(exp.title_es, exp.title, language),
   organization |-> exp.company,
   dates |-> Localized(exp.dates_es, exp.dates, language),
   location |-> exp.location,
   note |-> IF language = "es" /\ Truthy(exp.note_es) THEN exp.note_es ELSE exp.note,
   gpa |-> None,
   skills |-> exp.skills,
   bullets |-> TailoredBullets(exp.bullets, job_keywords, focus, language, max_bullets)]

_tailor_education(edu, job_keywords, focus, language, max_bullets) ==
  [id |-> edu.id,
   type |-> "education",
   title |-> Localized(edu.degree_es, edu.degree, language),
   organization |-> IF language = "es" /\ Truthy(edu.institution_es)
                    THEN edu.institution_es.value ELSE edu.institution,
   dates |-> Localized(edu.dates_es, edu.dates, language),
   location |-> edu.location,
   note |-> None,
   gpa |-> edu.gpa,
   skills |-> edu.skills,
   bullets |-> TailoredBullets(edu.bullets, job_keywords, focus, language, max_bullets)]

_tailor_other(oth, job_keywords, focus, language, max_bullets) ==
  [id |-> oth.id,
   type |-> "other",
   title |-> Localized(oth.title_es, oth.title, language),
   organization |-> oth.organization,
   dates |-> Localized(oth.dates_es, oth.dates, language),
   location |-> oth.location,
   note |-> None,
   gpa |-> None,
   skills |-> oth.skills,
   bullets |-> TailoredBullets(oth.bullets, job_keywords, focus, language, max_bullets)]

\* every module of a list, enabled or not
EnabledOrNot(modules) == modules

\* the modules of a list that are enabled, in the order of the list
Enabled(modules) == SelectSeq(modules, LAMBDA m : m.enabled)

\* select_modules(profile, job, language, max_bullets_per_entry); the focus
\* field of the TailoredProfile keeps its default
select_modules(profile, job, language, max_bullets_per_entry) ==
  CHOOSE tailored \in
    UNION {
      { [personal |-> profile.personal,
         summary |-> _select_summary(profile, focus, language),
         skills |-> _select_skills(profile, job_keywords),
         languages |-> profile.languages,
         experience |-> [k \in 1..Len(exps) |->
                           _tailor_experience(exps[k], job_keywords, focus, language,
                                              max_bullets_per_entry)],
         education |-> [k \in 1..Len(edus) |->
                          _tailor_education(edus[k], job_keywords, focus, language,
                                            max_bullets_per_entry)],
         other |-> [k \in 1..Len(oths) |->
                      _tailor_other(oths[k], job_keywords, focus, language,
                                    max_bullets_per_entry)],
         job_id |-> job.id,
         focus |-> None] :
        focus \in { _detect_focus(job_keywords, job.title) },
        exps \in { Enabled(profile.experience) },
        edus \in { Enabled(profile.education) },
        oths \in { Enabled(profile.other) } } :
      job_keywords \in
        { SeqRange(extract_keywords(job.description, profile, NoClient, NotCalled).out) } } :
    TRUE

\* module.bullets sorted by score where it stands
BulletsSortedInPlace(bullets, job_keywords) ==
  LET scored_bullets == [k \in 1..Len(bullets) |->
                           [b |-> bullets[k],
                            score |-> _score_bullet(bullets[k], job_keywords)]]
      sorted == SortByScore(scored_bullets, <<>>)
  IN [k \in 1..Len(sorted) |-> sorted[k].b]

\* the list module.bullets when a _tailor_ function returns: the comprehension
\* copies its items into the new list scored_bullets, and it is the copy that
\* sort() reorders and the slice cuts
BulletsAfterTailoring(bullets, job_keywords) == bullets

\* the profile when select_modules returns: the function assigns to no
\* attribute of the profile, and the only lists it changes in place are
\* the scored_bullets of the enabled modules
ProfileAfterSelectModules(profile, job) ==
  CHOOSE after \in
    { [profile EXCEPT
         !.experience = [k \in 1..Len(@) |->
                           IF @[k].enabled
                           THEN [@[k] EXCEPT !.bullets = BulletsAfterTailoring(@, job_keywords)]
                           ELSE @[k]],
         !.education = [k \in 1..Len(@) |->
                          IF @[k].enabled
                          THEN [@[k] EXCEPT !.bullets = BulletsAfterTailoring(@, job_keywords)]
                          ELSE @[k]],
         !.other = [k \in 1..Len(@) |->
                      IF @[k].enabled
                      THEN [@[k] EXCEPT !.bullets = BulletsAfterTailoring(@, job_keywords)]
                      ELSE @[k]]] :
      job_keywords \in
        { SeqRange(extract_keywords(job.description, profile, NoClient, NotCalled).out) } } :
    TRUE

MaxBullets == 3

MaxModules == 3

\* Bullets: two that tie whenever both or neither match, one without tags,
\* one of low priority, one whose bonus is negative
BulletPool ==
  LET NoVariations == [ml_focus |-> None, backend_focus |-> None, data_focus |-> None]
  IN { [id |-> "b_py", text |-> "py", text_es |-> "py es", tags |-> << <<"p","y","t","h","o","n">> >>,
        priority |-> 1, variations |-> [NoVariations EXCEPT !.ml_focus = Some("py ml")]],
       [id |-> "b_sql", text |-> "sql", text_es |-> "", tags |-> << <<"S","Q","L">> >>,
        priority |-> 1, variations |-> NoVariations],
       [id |-> "b_plain", text |-> "plain", text_es |-> "", tags |-> <<>>,
        priority |-> 1, variations |-> NoVariations],
       [id |-> "b_web", text |-> "web", text_es |-> "", tags |-> << <<"w","e","b">>, <<"p","y","t","h","o","n">> >>,
        priority |-> 3, variations |-> NoVariations],
       [id |-> "b_late", text |-> "late", text_es |-> "", tags |-> << <<"w","e","b">> >>,
        priority |-> 5, variations |-> NoVariations] }

\* a Profile whose modules carry the bullets bs: an experience, a disabled
\* experience, an education with the bullets in reverse order, and an other
\* module
ProfileWithBullets(bs) ==
  [personal |-> [summary |-> [default |-> "default summary",
                              variations |-> [ml_focus |-> Some("ml summary"),
                                              backend_focus |-> None,
                                              data_focus |-> Some("")]]],
   languages |-> << [language |-> "English", level |-> "Native"] >>,
   education |-> << [id |-> "edu1", institution |-> "University",
                     institution_es |-> Some("Universidad"), degree |-> "BSc",
                     degree_es |-> "Grado", dates |-> "2015", dates_es |-> "",
                     location |-> "Edinburgh", gpa |-> None, skills |-> <<>>,
                     bullets |-> [k \in 1..Len(bs) |-> bs[Len(bs) + 1 - k]],
                     enabled |-> TRUE] >>,
   other |-> << [id |-> "oth1", organization |-> "Hackathon", title |-> "Winner",
                 title_es |-> "", dates |-> "2020", dates_es |-> "", location |-> "",
                 skills |-> <<>>, bullets |-> bs, enabled |-> TRUE] >>]
  @@ [SampleProfile EXCEPT
        !.experience =
          << [id |-> "exp1", company |-> "Oesia", title |-> <<"A","I"," ","E","n","g","i","n","e","e","r">>,
              title_es |-> "Ingeniero de IA", dates |-> "2023", dates_es |-> "2023 es",
              location |-> "Madrid", note |-> None, note_es |-> None, skills |-> <<>>,
              bullets |-> bs, enabled |-> TRUE],
             [id |-> "exp2", company |-> "Acturis", title |-> <<"T","e","c","h","n","i","c","a","l"," ","B","u","s","i","n","e","s","s"," ","A","n","a","l","y","s","t">>,
              title_es |-> "", dates |-> "2021", dates_es |-> "",
              location |-> "London", note |-> Some("part time"), note_es |-> None,
              skills |-> <<>>, bullets |-> bs, enabled |-> FALSE] >>]

\* the keyword parameters of select_modules and their default values
SelectModulesDefaults == [language |-> "en", max_bullets_per_entry |-> 4]

\* the call select_modules(profile, job, **kwargs): the signature names
\* profile, job, language and max_bullets_per_entry and takes no other
\* keyword, so a call that passes any other keyword (llm_client) raises
\* TypeError before the body runs
select_modules_call(profile, job, kwargs) ==
  IF DOMAIN kwargs \subseteq DOMAIN SelectModulesDefaults
  THEN [raised |-> FALSE,
        value |-> select_modules(profile, job,
                                 (kwargs @@ SelectModulesDefaults).language,
                                 (kwargs @@ SelectModulesDefaults).max_bullets_per_entry)]
  ELSE [raised |-> TRUE, value |-> None]

\* list.sort(key=lambda x: x.priority): stable, so modules of equal priority
\* keep the order they were loaded in
RECURSIVE SortByPriority(_)
SortByPriority(modules) ==
  IF modules = <<>> THEN <<>>
  ELSE LET head == Head(modules)
           sorted == SortByPriority(Tail(modules))
       IN SelectSeq(sorted, LAMBDA m : m.priority < head.priority)
            \o <<head>>
            \o SelectSeq(sorted, LAMBDA m : m.priority >= head.priority)

\* _load_modules(directory, model_class): the modules of the files in file
\* name order, without those whose file says enabled: false
_load_modules(files) == SelectSeq(files, LAMBDA data : data.enabled)

\* load_profile(profile_dir): the three module lists loaded and sorted by
\* priority; personal and skills are those of rest
load_profile(dir, rest) ==
  [experience |-> SortByPriority(_load_modules(dir.experience)),
   education |-> SortByPriority(_load_modules(dir.education)),
   other |-> SortByPriority(_load_modules(dir.other))] @@ rest

\* profile.<type>[k].enabled = False for the modules named, as
\* test_disabled_entries_excluded does after loading
Disable(profile, ids) ==
  LET Toggle(modules) ==
        [k \in 1..Len(modules) |->
           [modules[k] EXCEPT !.enabled = @ /\ modules[k].id \notin ids]]
  IN [profile EXCEPT !.experience = Toggle(@),
                     !.education = Toggle(@),
                     !.other = Toggle(@)]

\* the functions called and the arguments they are called with
CallInputs ==
  LET
      \* the arguments of _location_match_score: a location text and a ScoringConfig
      LocationArgs ==
        [job_location : { <<>>, <<"R","e","m","o","t","e">>, <<"M","a","d","r","i","d",","," ","S","p","a","i","n">>, <<"B","e","r","l","i","n",","," ","G","e","r","m","a","n","y">>,
                          <<"T","o","k","y","o",","," ","J","a","p","a","n">>, <<"M","D">>, <<"E","S">>, <<"S","e","n","i","o","r"," ","E","n","g","i","n","e","e","r">>,
                          <<"p","r","o","c","e","s","s","e","s">>, <<"a","d","d","r","e","s","s","e","s">>, <<"M","i","l","w","a","u","k","e","e">>, <<"T","e","l","e","t","r","a","b","a","j","o">>,
                          <<"L","o","n","d","r","e","s",","," ","R","e","i","n","o"," ","U","n","i","d","o">>, <<"W","o","r","k"," ","r","e","m","o","t","e","l","y">> },
         config : { [weights |-> w, locations |-> l] :
                    w \in { [keyword_match |-> 350, title_match |-> 250,
                             skills_overlap |-> 250, location_match |-> 150] },
                    l \in LocationConfigs }]
      \* the arguments of _detect_focus: a set of keywords and a title
      DetectFocusArgs ==
        [job_keywords : SUBSET { <<"p","y","t","o","r","c","h">>, <<"c","u","d","a">>, <<"d","o","c","k","e","r">>, <<"a","p","i">>, <<"p","a","n","d","a","s">>,
                                 <<"d","a","t","a">>, <<"p","y","t","h","o","n">> },
         job_title : { <<"M","L"," ","E","n","g","i","n","e","e","r">>, <<"M","a","c","h","i","n","e"," ","L","e","a","r","n","i","n","g"," ","E","n","g","i","n","e","e","r">>, <<"B","a","c","k","e","n","d"," ","E","n","g","i","n","e","e","r">>,
                       <<"D","a","t","a"," ","S","c","i","e","n","t","i","s","t">>, <<"M","a","n","a","g","e","r">>, <<>>, <<"S","o","f","t","w","a","r","e"," ","E","n","g","i","n","e","e","r",","," ","D","a","t","a"," ","a","n","d"," ","M","L">> }]
      \* the arguments of _select_summary: a profile's summary, a focus label
      \* (or None) and a language
      SelectSummaryArgs ==
        [profile : { [personal |-> [summary |-> [default |-> d, variations |-> v]]] :
                     d \in { "", "default summary" },
                     v \in [ml_focus : { None, Some(""), Some("ml summary") },
                            backend_focus : { None, Some(""), Some("backend summary") },
                            data_focus : { None, Some(""), Some("data summary") }] },
         focus : { NoFocus, "ml_focus", "backend_focus", "data_focus", "nonexistent_focus" },
         language : { "en", "es" }]
      \* the arguments of _select_skills: a profile whose skill list is a pattern of
      \* up to MaxSkills skills, alone or repeated beyond 15 entries, and a set of
      \* keywords
      SelectSkillsArgs ==
        LET pool == { [name |-> <<"P","y","t","h","o","n">>, tags |-> << <<"a","l","l">> >>, priority |-> 1],
                      [name |-> <<"J","a","v","a">>, tags |-> << <<"a","l","l">> >>, priority |-> 1],
                      [name |-> <<"P","y","T","o","r","c","h">>, tags |-> << <<"m","l">>, <<"a","i">> >>, priority |-> 2],
                      [name |-> <<"S","Q","L">>, tags |-> << <<"M","L">>, <<"m","l">>, <<"d","a","t","a">> >>, priority |-> 3],
                      [name |-> <<"E","l","i","x","i","r">>, tags |-> <<>>, priority |-> 2] }
            patterns == UNION { [1..n -> pool] : n \in 0..MaxSkills }
            lists == patterns \cup
                     { [k \in 1..(15 + Len(p)) |-> p[((k - 1) % Len(p)) + 1]] :
                       p \in patterns \ {<<>>} }
        IN [profile : { [skills |-> l] : l \in lists },
            job_keywords : SUBSET { <<"p","y","t","h","o","n">>, <<"m","l">>, <<"d","a","t","a">> }]
      \* the arguments of _score_bullet: a Bullet and a set of keywords
      ScoreBulletArgs ==
        [bullet : [id : { "b1" }, text : { "Test" },
                   tags : { <<>>, << <<"p","y","t","h","o","n">> >>, << <<"w","e","b">>, <<"f","r","o","n","t","e","n","d">> >>,
                            << <<"P","y","t","h","o","n">>, <<"m","l">>, <<"a","i">> >>, << <<"m","l">>, <<"M","L">> >> },
                   priority : { 1, 2, 3, 5 }],
         job_keywords : SUBSET { <<"p","y","t","h","o","n">>, <<"m","l">> }]
      \* the arguments of select_modules: a profile whose modules carry up to
      \* MaxBullets bullets, a job, a language and max_bullets_per_entry
      SelectModulesArgs ==
        [profile : { ProfileWithBullets(bs) :
                     bs \in UNION { [1..n -> BulletPool] : n \in 0..MaxBullets } },
         job : [id : { "j1" }, title : { <<"M","L"," ","E","n","g","i","n","e","e","r">> },
                description : { <<"P","y","t","h","o","n"," ","a","n","d"," ","S","Q","L">>, <<"W","e"," ","u","s","e"," ","P","o","s","t","g","r","e","S","Q","L">>, <<"t","e","a","m"," ","p","l","a","y","e","r">> }],
         language : { "en", "es" },
         max_bullets_per_entry : { 0, 1, 2, 4 }]
      \* the arguments of _get_bullet_text: a Bullet, a focus label (or None) and
      \* a language
      GetBulletTextArgs ==
        [bullet : [id : { "b1" }, text : { "Default" },
                   text_es : { "", "Spanish text" },
                   variations : [ml_focus : { None, Some(""), Some("ML version") },
                                 backend_focus : { None, Some("Backend version") },
                                 data_focus : { None }]],
         focus : { NoFocus, "ml_focus", "backend_focus", "data_focus", "nonexistent_focus" },
         language : { "en", "es" }]
      \* the arguments of a call of select_modules with keywords, as its callers
      \* and tests make it: language, max_bullets_per_entry and llm_client, the
      \* capability being one whose methods raise, one that answers a rerank
      \* request with text that is no permutation, and one that answers "2,1"
      SelectModulesCallArgs ==
        LET clients == { [invoke |-> "raises", invoke_structured |-> "raises"],
                         [invoke |-> "invalid response", invoke_structured |-> "mock"],
                         [invoke |-> "2,1", invoke_structured |-> "mock"] }
            keywords == { <<>>, [language |-> "es"], [max_bullets_per_entry |-> 1] }
                          \cup { [llm_client |-> c] : c \in clients }
                          \cup { [language |-> "es", llm_client |-> c] : c \in clients }
        IN [profile : { ProfileWithBullets(bs) :
                        bs \in UNION { [1..n -> BulletPool] : n \in {0, MaxBullets - 1} } },
            job : [id : { "j1" }, title : { <<"M","L"," ","E","n","g","i","n","e","e","r">> },
                   description : { <<"P","y","t","h","o","n"," ","a","n","d"," ","S","Q","L">>, <<"t","e","a","m"," ","p","l","a","y","e","r">> }],
            kwargs : keywords]
      \* the arguments of _keyword_match_score: a list of up to three posting
      \* keywords (repeats included) and a profile
      KeywordMatchArgs ==
        [job_keywords : UNION { [1..n -> { <<"p","y","t","h","o","n">>, <<"m","l">>, <<"p","r","o","g","r","a","m","m","i","n","g">>, <<"j","a","v","a">>, <<"P","y","T","o","r","c","h">> }] :
                                n \in 0..3 },
         profile : { [skills |-> <<>>],
                     [skills |-> << Skill(<<"P","y","t","h","o","n">>, << <<"p","r","o","g","r","a","m","m","i","n","g">>, <<"M","L">> >>),
                                    Skill(<<"P","y","T","o","r","c","h">>, << <<"m","l">>, <<"d","e","e","p"," ","l","e","a","r","n","i","n","g">> >>) >>] }]
      \* the arguments of normalize_company: names without suffix, with one
      \* suffix, with two, with spaces to trim, and a bare suffix word
      NormalizeCompanyArgs ==
        [company : { <<"G","o","o","g","l","e">>, <<"A","c","m","e">>, <<"A","c","m","e"," ","I","n","c",".">>, <<"A","c","m","e"," ","I","n","c">>, <<"A","c","m","e"," ","L","L","C">>, <<"E","m","p","r","e","s","a"," ","S",".","A",".">>,
                     <<"F","i","r","m","a"," ","G","m","b","H">>, <<" "," ","A","c","m","e"," "," ","C","o","r","p"," "," ","L","t","d"," "," ">>, <<"A","c","m","e"," ","L","t","d"," ","I","n","c">>, <<"A","c","m","e"," ","I","n","c"," ","L","t","d">>,
                     <<"A","c","m","e"," ","G","m","b","H"," ","P","L","C">>, <<"I","n","c">>, <<"Z","i","n","c">>, <<>> }]
      \* a profile directory (the module files of each type in file name order,
      \* up to MaxModules experience files), the modules disabled after loading,
      \* a job and a language
      LoadAndSelectArgs ==
        LET exp(id, priority, enabled, title_es, dates_es, note, note_es) ==
              [id |-> id, company |-> "Oesia", title |-> "AI Engineer", title_es |-> title_es,
               dates |-> "2023", dates_es |-> dates_es, location |-> "Madrid",
               note |-> note, note_es |-> note_es, priority |-> priority,
               skills |-> <<>>, bullets |-> <<>>, enabled |-> enabled]
            experiences ==
              { exp("e_a", 2, TRUE, "", "", Some("part time"), Some("a tiempo parcial")),
                exp("e_b", 1, TRUE, "Ingeniero de IA", "2023 es", None, None),
                exp("e_c", 1, FALSE, "Analista", "", None, None),
                exp("e_d", 3, TRUE, "", "", Some("remote"), Some("")),
                exp("e_e", 1, TRUE, "Jefe", "", None, Some("nota")) }
            edu(id, priority, institution_es, degree_es, dates_es) ==
              [id |-> id, institution |-> "University", institution_es |-> institution_es,
               degree |-> "BSc", degree_es |-> degree_es, dates |-> "2015",
               dates_es |-> dates_es, location |-> "Edinburgh", gpa |-> None,
               priority |-> priority, skills |-> <<>>, bullets |-> <<>>, enabled |-> TRUE]
            oth(id, priority, title_es, dates_es) ==
              [id |-> id, organization |-> "Hackathon", title |-> "Winner", title_es |-> title_es,
               dates |-> "2020", dates_es |-> dates_es, location |-> "",
               priority |-> priority, skills |-> <<>>, bullets |-> <<>>, enabled |-> TRUE]
            others ==
              { [education |-> <<>>, other |-> <<>>],
                [education |-> << edu("u_a", 2, Some("Universidad"), "Grado", ""),
                                  edu("u_b", 1, None, "", "2015 es"),
                                  edu("u_c", 2, Some(""), "", "") >>,
                 other |-> << oth("o_a", 3, "", "2020 es"), oth("o_b", 1, "Ganador", "") >>] }
            lists == { l \in UNION { [1..n -> experiences] : n \in 0..MaxModules } :
                       \A i, j \in 1..Len(l) : i # j => l[i].id # l[j].id }
        IN [dir : { [experience |-> l] @@ o : l \in lists, o \in others },
            disabled : { {}, {"e_b", "u_a"} },
            job : [id : { "j1" }, title : { <<"M","L"," ","E","n","g","i","n","e","e","r">> }, description : { <<"P","y","t","h","o","n"," ","a","n","d"," ","S","Q","L">> }],
            language : { "en", "es" }]
  IN { <<"_location_match_score", a>> : a \in LocationArgs }
       \cup { <<"_detect_focus", a>> : a \in DetectFocusArgs }
       \cup { <<"_select_summary", a>> : a \in SelectSummaryArgs }
       \cup { <<"_select_skills", a>> : a \in SelectSkillsArgs }
       \cup { <<"_score_bullet", a>> : a \in ScoreBulletArgs }
       \cup { <<"select_modules", a>> : a \in SelectModulesArgs }
       \cup { <<"_get_bullet_text", a>> : a \in GetBulletTextArgs }
       \cup { <<"select_modules(**kwargs)", a>> : a \in SelectModulesCallArgs }
       \cup { <<"_keyword_match_score", a>> : a \in KeywordMatchArgs }
       \cup { <<"normalize_company", a>> : a \in NormalizeCompanyArgs }
       \cup { <<"load_profile;select_modules", a>> : a \in LoadAndSelectArgs }

InitCall ==
  /\ DedupIdle
  /\ WordIdle
  /\ KwIdle
  /\ ScoreIdle
  /\ BatchIdle
  /\ DbIdle
  /\ \E i \in CallInputs : c_fn = i[1] /\ c_args = i[2]
  /\ c_ret = <<>>
  /\ c_pc = "start"

CallFrame == UNCHANGED <<c_fn, c_args, dedupVars, wordVars, kwVars, scoreVars, batchVars, dbVars>>

\* c_ret = _location_match_score(job_location, config)
CallLocationMatch ==
  /\ c_pc = "start"
  /\ c_fn = "_location_match_score"
  /\ c_ret' = _location_match_score(c_args.job_location, c_args.config)
  /\ c_pc' = "done"
  /\ CallFrame

\* c_ret = _detect_focus(job_keywords, job_title)
CallDetectFocus ==
  /\ c_pc = "start"
  /\ c_fn = "_detect_focus"
  /\ c_ret' = _detect_focus(c_args.job_keywords, c_args.job_title)
  /\ c_pc' = "done"
  /\ CallFrame

\* c_ret = _select_summary(profile, focus, language)
CallSelectSummary ==
  /\ c_pc = "start"
  /\ c_fn = "_select_summary"
  /\ c_ret' = _select_summary(c_args.profile, c_args.focus, c_args.language)
  /\ c_pc' = "done"
  /\ CallFrame

\* c_ret = _select_skills(profile, job_keywords)
CallSelectSkills ==
  /\ c_pc = "start"
  /\ c_fn = "_select_skills"
  /\ c_ret' = _select_skills(c_args.profile, c_args.job_keywords)
  /\ c_pc' = "done"
  /\ CallFrame

\* c_ret = _score_bullet(bullet, job_keywords)
CallScoreBullet ==
  /\ c_pc = "start"
  /\ c_fn = "_score_bullet"
  /\ c_ret' = _score_bullet(c_args.bullet, c_args.job_keywords)
  /\ c_pc' = "done"
  /\ CallFrame

\* c_ret = select_modules(profile, job, language, max_bullets_per_entry); the
\* profile object is left as the call leaves it, the posting is only read
CallSelectModules ==
  /\ c_pc = "start"
  /\ c_fn = "select_modules"
  /\ c_ret' = select_modules(c_args.profile, c_args.job, c_args.language, c_args.max_bullets_per_entry)
  /\ c_args' = [c_args EXCEPT !.profile = ProfileAfterSelectModules(c_args.profile, c_args.job)]
  /\ c_pc' = "done"
  /\ UNCHANGED <<c_fn, dedupVars, wordVars, kwVars, scoreVars, batchVars, dbVars>>

\* c_ret = _get_bullet_text(bullet, focus, language)
CallGetBulletText ==
  /\ c_pc = "start"
  /\ c_fn = "_get_bullet_text"
  /\ c_ret' = _get_bullet_text(c_args.bullet, c_args.focus, c_args.language)
  /\ c_pc' = "done"
  /\ CallFrame

\* c_ret = the outcome of select_modules(profile, job, **kwargs)
CallSelectModulesKw ==
  /\ c_pc = "start"
  /\ c_fn = "select_modules(**kwargs)"
  /\ c_ret' = select_modules_call(c_args.profile, c_args.job, c_args.kwargs)
  /\ c_pc' = "done"
  /\ CallFrame

\* c_ret = _keyword_match_score(job_keywords, profile)
CallKeywordMatch ==
  /\ c_pc = "start"
  /\ c_fn = "_keyword_match_score"
  /\ c_ret' = _keyword_match_score(c_args.job_keywords, c_args.profile)
  /\ c_pc' = "done"
  /\ CallFrame

\* c_ret = normalize_company(company)
CallNormalizeCompany ==
  /\ c_pc = "start"
  /\ c_fn = "normalize_company"
  /\ c_ret' = normalize_company(c_args.company)
  /\ c_pc' = "done"
  /\ CallFrame

\* c_ret = select_modules(profile, job, language) for the profile that load_profile
\* gives for the directory, with some of its modules disabled afterwards
CallLoadAndSelect ==
  /\ c_pc = "start"
  /\ c_fn = "load_profile;select_modules"
  /\ c_ret' = select_modules(Disable(load_profile(c_args.dir, ProfileWithBullets(<<>>)), c_args.disabled),
                 c_args.job, c_args.language, SelectModulesDefaults.max_bullets_per_entry)
  /\ c_pc' = "done"
  /\ CallFrame

NextCall ==
  \/ CallLocationMatch
  \/ CallDetectFocus
  \/ CallSelectSummary
  \/ CallSelectSkills
  \/ CallScoreBullet
  \/ CallSelectModules
  \/ CallGetBulletText
  \/ CallSelectModulesKw
  \/ CallKeywordMatch
  \/ CallNormalizeCompany
  \/ CallLoadAndSelect

SpecCall == InitCall /\ [][NextCall]_vars

----------------------------------------------------------------------------
(* Properties of _location_match_score *)

LocationDone == c_pc = "done" /\ c_fn = "_location_match_score"

\* the remote keywords, the preferred-location tokens of both lists and the
\* abbreviations of a LocationConfig
ConfiguredTerms(l) ==
  SeqRange(l.remote_keywords) \cup SeqRange(l.preferred) \cup SeqRange(l.preferred_es)
    \cup { l.abbreviations[k].key : k \in 1..Len(l.abbreviations) }

\* term stands in text as a whole token
OccursAsToken(term, text) ==
  \E k \in 1..Len(text) : OccursAt(term, text, k) /\ Delimited(term, text, k)

\* term stands somewhere in text, be it inside a longer word
OccursAnywhere(term, text) == \E k \in 1..Len(text) : OccursAt(term, text, k)

\* C12: the location sub-score is decided from the supplied configuration:
\* 0.5 for the empty location; otherwise 1.0 when the location holds one of
\* the configuration's remote keywords, preferred-location tokens or
\* abbreviations, and 0.0 when it holds none of them.
C12_LocationFromConfig ==
  LocationDone =>
    LET loc == c_args.job_location
        terms == ConfiguredTerms(c_args.config.locations)
    IN /\ loc = <<>> => c_ret = Frac(1, 2)
       /\ (loc # <<>> /\ \E t \in terms : OccursAsToken(t, loc)) => c_ret = Frac(1, 1)
       /\ (loc # <<>> /\ \A t \in terms : ~OccursAnywhere(t, loc)) => c_ret = Frac(0, 1)

\* C13: the terms of the configuration match only as whole tokens: a location
\* where they occur only inside longer words scores 0.0, and one where a term
\* stands as a token of its own scores 1.0.
C13_WholeTokensOnly ==
  LocationDone =>
    LET loc == c_args.job_location
        terms == ConfiguredTerms(c_args.config.locations)
    IN /\ (loc # <<>> /\ \A t \in terms : ~OccursAsToken(t, loc)) => c_ret = Frac(0, 1)
       /\ (\E t \in terms : OccursAsToken(t, loc)) => c_ret = Frac(1, 1)

----------------------------------------------------------------------------
(* matcher/scorer.py: score_job without a profile, and score_jobs *)

\* _keyword_match_score raises AttributeError: profile.skills is read, once
\* the early return for no keywords is passed, and profile is None
_keyword_match_raises(job_keywords, profile) ==
  job_keywords # <<>> /\ ~profile.present

\* _title_match_score raises AttributeError: profile.personal is read, once
\* the early return for a title with no word is passed, and profile is None
_title_match_raises(job_title, profile) ==
  TitleWords(job_title) # {} /\ ~profile.present

\* profile.skills read only behind an early return for no keywords
_skills_overlap_raises_guarded(job_keywords, profile) ==
  job_keywords # <<>> /\ ~profile.present

\* _skills_overlap_score raises AttributeError: profile.skills is read by its
\* first statement
_skills_overlap_raises(job_keywords, profile) == ~profile.present

\* score_job(job, profile, config) raises
score_job_raises(job, profile) ==
  \E job_keywords \in { extract_keywords(job.description, profile, NoClient, NotCalled).out } :
    \/ _keyword_match_raises(job_keywords, profile)
    \/ _title_match_raises(job.title, profile)
    \/ _skills_overlap_raises(job_keywords, profile)

\* job.score = score only
SetScoreOnly(heap, job, r) == [heap EXCEPT ![job].score = r.score]

\* job.score = score; job.score_details = details
SetScore(heap, job, r) ==
  [heap EXCEPT ![job].score = r.score, ![job].score_details = r.details]

\* the loop of score_jobs from list position k on: the heaps it can leave,
\* and whether an exception ended it
RECURSIVE ScoreLoop(_, _, _, _, _)
ScoreLoop(heap, list, k, profile, config) ==
  IF k > Len(list) THEN { [heap |-> heap, raised |-> FALSE] }
  ELSE LET job == list[k]
       IN IF score_job_raises(heap[job], profile)
          THEN { [heap |-> heap, raised |-> TRUE] }
          ELSE UNION { ScoreLoop(SetScore(heap, job, r), list, k + 1, profile, config) :
                       r \in score_job(heap[job], profile, config) }

\* score_jobs(jobs, profile, config): the list returned is the list given
score_jobs(heap, list, profile, config) ==
  { [heap |-> o.heap, raised |-> o.raised,
     result |-> IF o.raised THEN None ELSE list] :
    o \in ScoreLoop(heap, list, 1, profile, config) }

MaxBatch == 2

\* Job objects: a posting never scored, one scored before, and one with no
\* title, description and location
BatchJobs ==
  { [title |-> <<"A","I"," ","E","n","g","i","n","e","e","r">>, description |-> <<"P","y","t","h","o","n"," ","a","n","d"," ","S","Q","L">>,
     location |-> <<"R","e","m","o","t","e">>, status |-> "new", score |-> None, score_details |-> None],
    [title |-> <<"C","h","e","f">>, description |-> <<"t","e","a","m"," ","p","l","a","y","e","r">>,
     location |-> <<"T","o","k","y","o",","," ","J","a","p","a","n">>, status |-> "reviewed",
     score |-> Thousandths(123), score_details |-> [total |-> Thousandths(123)]],
    [title |-> <<>>, description |-> <<>>,
     location |-> <<>>, status |-> "new", score |-> None, score_details |-> None] }

InitBatch ==
  /\ DedupIdle
  /\ WordIdle
  /\ KwIdle
  /\ ScoreIdle
  /\ CallIdle
  /\ DbIdle
  /\ \E n \in 0..MaxBatch : b_jobs \in [1..n -> BatchJobs]
  /\ b_jobs0 = b_jobs
  /\ \E m \in 0..MaxBatch : b_list \in [1..m -> DOMAIN b_jobs]
  /\ b_profile \in KwProfiles
  /\ b_config \in { [weights |-> w] :
                    w \in { [keyword_match |-> 350, title_match |-> 250,
                             skills_overlap |-> 250, location_match |-> 150],
                            [keyword_match |-> 1000, title_match |-> 0,
                             skills_overlap |-> 0, location_match |-> 0] } }
  /\ b_result = None
  /\ b_raised = FALSE
  /\ b_pc = "start"

BatchFrame ==
  UNCHANGED <<b_jobs0, b_list, b_profile, b_config,
              dedupVars, wordVars, kwVars, scoreVars, callVars, dbVars>>

\* b_result = score_jobs(b_list, b_profile, b_config)
ScoreJobsCall ==
  /\ b_pc = "start"
  /\ \E o \in score_jobs(b_jobs, b_list, b_profile, b_config) :
       /\ b_jobs' = o.heap
       /\ b_raised' = o.raised
       /\ b_result' = o.result
  /\ b_pc' = "batch"
  /\ BatchFrame

\* b_result = score_job(job, b_profile, b_config), for one job of b_list
ScoreJobCall ==
  /\ b_pc = "start"
  /\ \E k \in 1..Len(b_list) :
       IF score_job_raises(b_jobs[b_list[k]], b_profile)
       THEN b_raised' = TRUE /\ b_result' = None
       ELSE /\ b_raised' = FALSE
            /\ b_result' \in score_job(b_jobs[b_list[k]], b_profile, b_config)
  /\ b_pc' = "one"
  /\ UNCHANGED b_jobs
  /\ BatchFrame

NextBatch ==
  \/ ScoreJobsCall
  \/ ScoreJobCall

SpecBatch == InitBatch /\ [][NextBatch]_vars

----------------------------------------------------------------------------
(* Properties of score_jobs *)

\* C14: score_jobs returns the list it was given; every posting of the list
\* then carries the score and the breakdown that score_job yields for that
\* posting alone, and nothing else of any posting has changed.
C14_BatchScoresEachAlone ==
  (b_pc = "batch" /\ b_profile.present) =>
    /\ ~b_raised
    /\ b_result = b_list
    /\ DOMAIN b_jobs = DOMAIN b_jobs0
    /\ \A r \in DOMAIN b_jobs :
         IF r \in SeqRange(b_list)
         THEN /\ \E x \in score_job(b_jobs0[r], b_profile, b_config) :
                   /\ b_jobs[r].score = x.score
                   /\ b_jobs[r].score_details = x.details
              /\ [b_jobs[r] EXCEPT !.score = None, !.score_details = None]
                   = [b_jobs0[r] EXCEPT !.score = None, !.score_details = None]
         ELSE b_jobs[r] = b_jobs0[r]

\* a batch of two different postings, listed against the order of the heap,
\* one of them scored before: both got their own score
C14_Witness ==
  /\ b_pc = "batch"
  /\ b_profile = SampleProfile
  /\ b_list = <<2, 1>>
  /\ b_jobs0[2].score = Thousandths(123)
  /\ b_jobs0[1].score = None
  /\ b_jobs[2].score = Thousandths(0)
  /\ b_jobs[2].score_details.location_match = Thousandths(0)
  /\ b_jobs[1].score # None
  /\ b_jobs[1].score # b_jobs[2].score

\* C15: with no profile, score_job raises for every posting and score_jobs
\* raises for every list that holds a posting; no posting's score or
\* breakdown is modified.
C15_NoProfileRaises ==
  ~b_profile.present =>
    /\ b_pc = "one" => (b_raised /\ b_jobs = b_jobs0)
    /\ (b_pc = "batch" /\ b_list # <<>>) => (b_raised /\ b_jobs = b_jobs0)

\* no profile and a batch whose first posting has no title and no description,
\* for which the keyword and the title sub-score return before they read the
\* profile; the second posting keeps the score it had
C15_Witness ==
  /\ ~b_profile.present
  /\ b_pc = "batch"
  /\ b_list = <<1, 2>>
  /\ b_jobs0[1].title = <<>> /\ b_jobs0[1].description = <<>>
  /\ b_jobs0[2].score = Thousandths(123)
  /\ b_raised
  /\ b_jobs[2].score = Thousandths(123)

----------------------------------------------------------------------------
(* Properties of cv/module_selector.py *)

\* the score of the k-th focus of the order ml, backend, data: the keywords
\* that are indicators of the focus, plus 2 when the title holds one of its
\* phrases
FocusScore(k, job_keywords, job_title) ==
  Cardinality({ w \in job_keywords : w \in FocusTable[k].indicators })
  + (IF \E p \in FocusTable[k].phrases : OccursAnywhere(p, job_title) THEN 2 ELSE 0)

\* C16: the detected focus is the one with the highest score when that score
\* is positive, the earliest of the order ml, backend, data among those that
\* share the highest score, and none when every score is 0; keywords
\* {pytorch, cuda} with the title "ML Engineer" give ml.
C16_DetectFocus ==
  (c_pc = "done" /\ c_fn = "_detect_focus") =>
    LET score(k) == FocusScore(k, c_args.job_keywords, c_args.job_title)
    IN /\ IF \A k \in 1..3 : score(k) = 0
          THEN c_ret = NoFocus
          ELSE \E k \in 1..3 :
                 /\ c_ret = <<"ml_focus", "backend_focus", "data_focus">>[k]
                 /\ \A j \in 1..3 : score(j) =< score(k)
                 /\ \A j \in 1..(k - 1) : score(j) < score(k)
       /\ (/\ c_args.job_keywords = { <<"p","y","t","o","r","c","h">>, <<"c","u","d","a">> }
           /\ c_args.job_title = <<"M","L"," ","E","n","g","i","n","e","e","r">>)
            => c_ret = "ml_focus"

\* a tie at the top: two backend keywords and two data keywords with a title
\* that favours neither, and backend is detected
C16_Witness ==
  /\ c_pc = "done"
  /\ c_fn = "_detect_focus"
  /\ FocusScore(1, c_args.job_keywords, c_args.job_title) = 0
  /\ FocusScore(2, c_args.job_keywords, c_args.job_title) = 2
  /\ FocusScore(3, c_args.job_keywords, c_args.job_title) = 2
  /\ c_args.job_title = <<"M","a","n","a","g","e","r">>
  /\ c_ret = "backend_focus"

\* C17: the summary chosen is the profile's variant for the focus when a focus
\* was detected and the profile defines a non-empty variant for it; otherwise
\* (no focus, a label with no variant, an empty variant) it is the default.
C17_SummaryResolution ==
  (c_pc = "done" /\ c_fn = "_select_summary") =>
    LET summary == c_args.profile.personal.summary
        focus == c_args.focus
        defined == /\ focus \in {"ml_focus", "backend_focus", "data_focus"}
                   /\ summary.variations[focus] # None
                   /\ summary.variations[focus] # Some("")
    IN IF defined
       THEN Some(c_ret) = summary.variations[focus]
       ELSE c_ret = summary.default

\* the backend focus with an empty backend variant, while the ml variant has
\* a text: the default summary is chosen
C17_Witness ==
  /\ c_pc = "done"
  /\ c_fn = "_select_summary"
  /\ c_args.focus = "backend_focus"
  /\ c_args.profile.personal.summary.variations.backend_focus = Some("")
  /\ c_args.profile.personal.summary.variations.ml_focus = Some("ml summary")
  /\ c_ret = "default summary"

\* number of items ranked before item i: those with a higher score, and
\* those with the same score that stand before it in the list
RankedBefore(i, score) ==
  Cardinality({ j \in DOMAIN score :
                  \/ score[j].n * score[i].d > score[i].n * score[j].d
                  \/ (score[j].n * score[i].d = score[i].n * score[j].d /\ j < i) })

\* C18: skill ranking returns at most 15 names, all of the profile, in
\* descending order of score = 3 if the lowercased name is a posting keyword
\* + (the skill's tags that are posting keywords, lowercased and counted
\* once each) / max(tag count, 1) + (4 - priority)/3; skills with equal scores
\* keep their order in the profile.
C18_SkillRanking ==
  (c_pc = "done" /\ c_fn = "_select_skills") =>
    LET skills == c_args.profile.skills
        kws == c_args.job_keywords
        count(i) == IF Len(skills[i].tags) = 0 THEN 1 ELSE Len(skills[i].tags)
        hits(i) == Cardinality({ w \in kws : \E t \in 1..Len(skills[i].tags) :
                                               Lower(skills[i].tags[t]) = w })
        score == [i \in 1..Len(skills) |->
                    Frac((IF Lower(skills[i].name) \in kws THEN 9 ELSE 0) * count(i)
                           + 3 * hits(i) + (4 - skills[i].priority) * count(i),
                         3 * count(i))]
    IN /\ Len(c_ret) =< 15
       /\ Len(c_ret) = (IF Len(skills) < 15 THEN Len(skills) ELSE 15)
       /\ \A r \in 1..Len(c_ret) :
            \E i \in 1..Len(skills) :
              RankedBefore(i, score) = r - 1 /\ c_ret[r] = skills[i].name

\* more than 15 skills, among them Python and Java that tie (same tags and
\* priority, neither named by the keywords) in the order Java, Python
C18_Witness ==
  /\ c_pc = "done"
  /\ c_fn = "_select_skills"
  /\ Len(c_args.profile.skills) = 18
  /\ c_args.profile.skills[1].name = <<"J","a","v","a">>
  /\ c_args.profile.skills[2].name = <<"P","y","t","h","o","n">>
  /\ c_args.profile.skills[3].name = <<"S","Q","L">>
  /\ c_args.job_keywords = { <<"m","l">> }
  /\ Len(c_ret) = 15
  /\ c_ret[1] = <<"J","a","v","a">>
  /\ c_ret[2] = <<"P","y","t","h","o","n">>
  /\ c_ret[13] = <<"S","Q","L">>

\* the tags of a bullet that are posting keywords, lowercased and counted
\* once each
TagHits(bullet, kws) ==
  Cardinality({ w \in kws : \E t \in 1..Len(bullet.tags) : Lower(bullet.tags[t]) = w })

\* C19: a bullet with no tags scores exactly 0.0 whatever its priority; a
\* bullet with at least one tag scores (its tags that are posting keywords)
\* + (4 - priority)/3, and so scores strictly more than a tagged bullet with
\* the same tag overlap and a higher priority number.
C19_BulletScore ==
  (c_pc = "done" /\ c_fn = "_score_bullet") =>
    LET bullet == c_args.bullet
        kws == c_args.job_keywords
    IN IF Len(bullet.tags) = 0
       THEN c_ret = Frac(0, 1)
       ELSE /\ FracEq(c_ret, FracAdd(Frac(TagHits(bullet, kws), 1),
                                     Frac(4 - bullet.priority, 3)))
            /\ \A p \in 1..5, tags \in { << <<"p","y","t","h","o","n">> >>,
                                         << <<"w","e","b">>, <<"m","l">> >> } :
                 LET other == [bullet EXCEPT !.priority = p, !.tags = tags]
                 IN (p > bullet.priority /\ TagHits(other, kws) = TagHits(bullet, kws))
                      => FracLess(_score_bullet(other, kws), c_ret)

\* a tagged bullet of priority 2 none of whose tags is a keyword: it scores
\* its priority bonus 2/3
C19_Witness ==
  /\ c_pc = "done"
  /\ c_fn = "_score_bullet"
  /\ Len(c_args.bullet.tags) = 2
  /\ c_args.bullet.priority = 2
  /\ c_args.job_keywords = { <<"p","y","t","h","o","n">>, <<"m","l">> }
  /\ TagHits(c_args.bullet, c_args.job_keywords) = 0
  /\ c_ret = Frac(2, 3)

\* the k-th tailored entry of a list stands for the k-th enabled module of the
\* profile's list, and its bullets are the N first of the module's bullets
\* ranked by score, each with its score
TopBulletsOf(entries, modules, N, kws) ==
  LET given == SelectSeq(modules, LAMBDA m : m.enabled)
  IN /\ Len(entries) = Len(given)
     /\ \A k \in 1..Len(entries) :
          LET e == entries[k]
              m == given[k]
              score == [i \in 1..Len(m.bullets) |-> _score_bullet(m.bullets[i], kws)]
          IN /\ e.id = m.id
             /\ Len(e.bullets) =< N
             /\ Len(e.bullets) = (IF Len(m.bullets) < N THEN Len(m.bullets) ELSE N)
             /\ \A r \in 1..Len(e.bullets) :
                  \E i \in 1..Len(m.bullets) :
                    /\ RankedBefore(i, score) = r - 1
                    /\ e.bullets[r].id = m.bullets[i].id
                    /\ e.bullets[r].relevance_score = score[i]

\* C20: every tailored entry of select_modules called with
\* max_bullets_per_entry = N >= 0 has at most N bullets: the N highest-scoring
\* bullets of its module (all of them when the module has fewer), in
\* descending order of score, bullets of equal score in the order of the
\* module, each with the score it was ranked by as its relevance score.
C20_TopBullets ==
  (c_pc = "done" /\ c_fn = "select_modules" /\ c_args.max_bullets_per_entry >= 0) =>
    LET N == c_args.max_bullets_per_entry
        kws == SeqRange(_extract_keywords_regex(c_args.job.description, c_args.profile))
    IN /\ TopBulletsOf(c_ret.experience, c_args.profile.experience, N, kws)
       /\ TopBulletsOf(c_ret.education, c_args.profile.education, N, kws)
       /\ TopBulletsOf(c_ret.other, c_args.profile.other, N, kws)

\* N = 2 and a module of three bullets, the untagged one first and then two
\* that tie at 2.0: the two are emitted in the order of the module, which for
\* the education entry is the reverse order
C20_Witness ==
  /\ c_pc = "done"
  /\ c_fn = "select_modules"
  /\ c_args.max_bullets_per_entry = 2
  /\ Len(c_args.profile.experience[1].bullets) = 3
  /\ c_args.profile.experience[1].bullets[1].id = "b_plain"
  /\ [k \in 1..2 |-> c_ret.experience[1].bullets[k].id] = <<"b_sql", "b_py">>
  /\ [k \in 1..2 |-> c_ret.education[1].bullets[k].id] = <<"b_py", "b_sql">>
  /\ c_ret.experience[1].bullets[1].relevance_score = Frac(6, 3)
  /\ c_ret.experience[1].bullets[2].relevance_score = Frac(6, 3)

----------------------------------------------------------------------------
(* Properties of _get_bullet_text *)

\* the bullet has a variant text for the focus: a focus was detected, the
\* variations object has a field of that name, and the field holds a text
\* that is not empty
HasVariant(bullet, focus) ==
  /\ focus # NoFocus
  /\ focus \in DOMAIN bullet.variations
  /\ bullet.variations[focus] # None
  /\ bullet.variations[focus].value # ""

\* C21: the text of a bullet is its localized text when the language is
\* "es" and the localized text is not empty; otherwise the variant text of
\* the detected focus when there is a focus and the bullet has a variant for
\* it; otherwise the default text. A non-empty localized text wins over a
\* variant and an empty one falls through to the variant.
C21_BulletTextPrecedence ==
  (c_pc = "done" /\ c_fn = "_get_bullet_text") =>
    LET b == c_args.bullet
        localized == c_args.language = "es" /\ b.text_es # ""
        variant == HasVariant(b, c_args.focus)
    IN /\ localized => c_ret = b.text_es
       /\ (~localized /\ variant) => c_ret = b.variations[c_args.focus].value
       /\ (~localized /\ ~variant) => c_ret = b.text

\* an "es" request for a bullet with an empty localized text and an ml
\* variant returned the variant
C21_Witness ==
  /\ c_pc = "done"
  /\ c_fn = "_get_bullet_text"
  /\ c_args.language = "es"
  /\ c_args.focus = "ml_focus"
  /\ c_args.bullet.text_es = ""
  /\ c_args.bullet.variations.ml_focus = Some("ML version")
  /\ c_ret = "ML version"

----------------------------------------------------------------------------
(* Properties of select_modules called with an LLM capability *)

KwCallDone == c_pc = "done" /\ c_fn = "select_modules(**kwargs)"

\* the selection select_modules gives for the call's profile, posting,
\* language and max_bullets_per_entry when no capability is passed
WithoutCapability ==
  select_modules(c_args.profile, c_args.job,
                 (c_args.kwargs @@ SelectModulesDefaults).language,
                 (c_args.kwargs @@ SelectModulesDefaults).max_bullets_per_entry)

\* the ids of the bullets of every entry of a selection, in order
BulletOrder(tailored) ==
  [type \in {"experience", "education", "other"} |->
     [k \in 1..Len(tailored[type]) |->
        [i \in 1..Len(tailored[type][k].bullets) |-> tailored[type][k].bullets[i].id]]]

\* C22: when the capability answers a rerank request with text that is not a
\* permutation of the bullet indices, select_modules returns, and the bullets
\* of every entry are in the order of the selection made without capability
C22_RerankFailurePreservesOrder ==
  (/\ KwCallDone
   /\ "llm_client" \in DOMAIN c_args.kwargs
   /\ c_args.kwargs.llm_client.invoke = "invalid response") =>
    /\ ~c_ret.raised
    /\ BulletOrder(c_ret.value) = BulletOrder(WithoutCapability)

\* C23: called with a capability whose invoke and invoke_structured raise,
\* select_modules raises nothing and returns the selection it returns
\* without capability: the posting's id and one entry per enabled module
C23_CapabilityFailureGraceful ==
  (/\ KwCallDone
   /\ "llm_client" \in DOMAIN c_args.kwargs
   /\ c_args.kwargs.llm_client.invoke = "raises"
   /\ c_args.kwargs.llm_client.invoke_structured = "raises") =>
    /\ ~c_ret.raised
    /\ c_ret.value = WithoutCapability
    /\ c_ret.value.job_id = c_args.job.id
    /\ Len(c_ret.value.experience) = Len(Enabled(c_args.profile.experience))

\* C25: the TailoredProfile select_modules returns for a posting whose
\* detected focus is ml, backend or data has that focus in its focus field,
\* which is then not None
C25_FocusFieldSet ==
  (c_pc = "done" /\ c_fn = "select_modules") =>
    LET job_keywords ==
          SeqRange(extract_keywords(c_args.job.description, c_args.profile,
                                    NoClient, NotCalled).out)
        focus == _detect_focus(job_keywords, c_args.job.title)
    IN focus # NoFocus => (c_ret.focus # None /\ c_ret.focus = Some(focus))

----------------------------------------------------------------------------
(* Frame of select_modules *)

----------------------------------------------------------------------------
(* db.py: the jobs table and upsert_job *)

\* json.dumps of a list of str without characters to escape
RECURSIVE JsonDumpsItems(_, _)
JsonDumpsItems(tags, k) ==
  IF k > Len(tags) THEN <<>>
  ELSE (IF k > 1 THEN <<","," ">> ELSE <<>>) \o <<"\"">> \o tags[k] \o <<"\"">>
       \o JsonDumpsItems(tags, k + 1)

JsonDumps(tags) == <<"[">> \o JsonDumpsItems(tags, 1) \o <<"]">>

\* job_to_row(job), for the columns upsert_job reads or writes and the
\* columns it leaves alone
job_to_row(job) ==
  [id |-> job.id,
   source |-> job.source,
   source_id |-> job.source_id,
   title |-> job.title,
   company |-> job.company,
   location |-> job.location,
   description |-> job.description,
   url |-> job.url,
   salary_min |-> job.salary_min,
   salary_max |-> job.salary_max,
   tags |-> JsonDumps(job.tags),
   score |-> job.score,
   status |-> job.status]

\* the rows with the posting's source_id, whatever their source
MatchingSourceId(rows, job) ==
  SelectSeq([k \in 1..Len(rows) |-> k],
            LAMBDA k : rows[k].source_id = job.source_id)

\* session.query(JobRow).filter_by(source=job.source, source_id=job.source_id):
\* the positions of the rows that match, in table order
FilterBySource(rows, job) ==
  SelectSeq([k \in 1..Len(rows) |-> k],
            LAMBDA k : rows[k].source = job.source /\ rows[k].source_id = job.source_id)

\* upsert_job(session, job): the table afterwards and the value returned
upsert_job(rows, job) ==
  LET existing == FilterBySource(rows, job)
  IN IF existing # <<>>
     THEN [rows |-> [rows EXCEPT ![existing[1]] =
                       [@ EXCEPT !.title = job.title,
                                 !.description = job.description,
                                 !.url = job.url,
                                 !.salary_min = job.salary_min,
                                 !.salary_max = job.salary_max,
                                 !.tags = JsonDumps(job.tags)]],
           returned |-> FALSE]
     ELSE [rows |-> Append(rows, job_to_row(job)), returned |-> TRUE]

MaxUpserts == 3

\* Job objects handed to upsert_job: three (source, source_id) pairs, two of
\* them with the same source_id, and for each pair two postings collected at
\* different times. Every Job object has an id of its own (uuid4 in the
\* collector).
DbJobs ==
  { [id |-> "id-" \o p[1] \o "-" \o p[2] \o "-first",
     source |-> p[1], source_id |-> p[2],
     title |-> "ML Engineer", company |-> "AI Corp", location |-> "Madrid",
     description |-> "Looking for ML engineer", url |-> "https://a/1",
     salary_min |-> None, salary_max |-> None,
     tags |-> << <<"p","y","t","h","o","n">>, <<"m","l">> >>,
     score |-> None, status |-> "new"] :
    p \in { <<"indeed", "indeed_456">>, <<"indeed", "indeed_789">>,
            <<"linkedin", "indeed_456">> } }
  \cup
  { [id |-> "id-" \o p[1] \o "-" \o p[2] \o "-later",
     source |-> p[1], source_id |-> p[2],
     title |-> "Senior ML Engineer", company |-> "AI Corp Ltd", location |-> "Remote",
     description |-> "Updated description", url |-> "https://a/2",
     salary_min |-> Some(50000), salary_max |-> Some(70000),
     tags |-> <<>>,
     score |-> Some(850), status |-> "reviewed"] :
    p \in { <<"indeed", "indeed_456">>, <<"indeed", "indeed_789">>,
            <<"linkedin", "indeed_456">> } }

\* a new session on an empty database
InitDb ==
  /\ DedupIdle
  /\ WordIdle
  /\ KwIdle
  /\ ScoreIdle
  /\ BatchIdle
  /\ CallIdle
  /\ db_rows = <<>>
  /\ db_calls = <<>>
  /\ db_pc = "open"

\* is_new = upsert_job(session, job)
UpsertJob ==
  /\ db_pc = "open"
  /\ Len(db_calls) < MaxUpserts
  /\ \E job \in DbJobs :
       \E r \in { upsert_job(db_rows, job) } :
         /\ db_rows' = r.rows
         /\ db_calls' = Append(db_calls, [job |-> job, returned |-> r.returned])
  /\ UNCHANGED <<db_pc, dedupVars, wordVars, kwVars, scoreVars, batchVars, callVars>>

NextDb == UpsertJob

SpecDb == InitDb /\ [][NextDb]_vars

----------------------------------------------------------------------------
(* Properties of upsert_job *)

PairOf(x) == <<x.source, x.source_id>>

\* the calls made for a (source, source_id) pair, as positions in db_calls
CallsFor(pair) == { k \in 1..Len(db_calls) : PairOf(db_calls[k].job) = pair }

FirstPosting(pair) == db_calls[Min(CallsFor(pair))].job

LatestPosting(pair) ==
  db_calls[CHOOSE k \in CallsFor(pair) : \A j \in CallsFor(pair) : j <= k].job

\* C26: after any sequence of upsert_job calls on a session the table has
\* exactly one row for each (source, source_id) pair upserted; a call
\* returned True exactly when it was the first for its pair; the row has the
\* id, status and score of the first posting of its pair and the title,
\* description, url, salary bounds and tags of the latest one
C26_OneRowPerSourcePair ==
  LET pairs == { PairOf(db_calls[k].job) : k \in 1..Len(db_calls) }
  IN /\ { PairOf(db_rows[i]) : i \in 1..Len(db_rows) } = pairs
     /\ Len(db_rows) = Cardinality(pairs)
     /\ \A k \in 1..Len(db_calls) :
          db_calls[k].returned = (k = Min(CallsFor(PairOf(db_calls[k].job))))
     /\ \A i \in 1..Len(db_rows) :
          LET first == FirstPosting(PairOf(db_rows[i]))
              latest == LatestPosting(PairOf(db_rows[i]))
          IN /\ db_rows[i].id = first.id
             /\ db_rows[i].status = first.status
             /\ db_rows[i].score = first.score
             /\ db_rows[i].title = latest.title
             /\ db_rows[i].description = latest.description
             /\ db_rows[i].url = latest.url
             /\ db_rows[i].salary_min = latest.salary_min
             /\ db_rows[i].salary_max = latest.salary_max
             /\ db_rows[i].tags = JsonDumps(latest.tags)

\* two pairs with the same source_id were upserted, one of them twice with
\* postings of different ids: two rows, the second call returned False
C26_Witness ==
  /\ Len(db_calls) = 3
  /\ Len(db_rows) = 2
  /\ db_calls[1].job.id = "id-indeed-indeed_456-first"
  /\ db_calls[2].job.id = "id-indeed-indeed_456-later"
  /\ db_calls[3].job.id = "id-linkedin-indeed_456-first"
  /\ db_calls[2].returned = FALSE
  /\ db_calls[3].returned = TRUE
  /\ db_rows[1].id = "id-indeed-indeed_456-first"
  /\ db_rows[1].title = "Senior ML Engineer"
  /\ db_rows[1].tags = <<"[", "]">>
  /\ db_rows[2].tags = <<"[", "\"", "p", "y", "t", "h", "o", "n", "\"", ",", " ", "\"", "m", "l", "\"", "]">>

----------------------------------------------------------------------------
(* Properties of _keyword_match_score *)

\* the lowercased skill names of a profile united with the lowercased tags of
\* its skills
NamesAndTags(profile) ==
  { Lower(profile.skills[i].name) : i \in 1..Len(profile.skills) }
    \cup UNION { { Lower(tag) : tag \in SeqRange(profile.skills[i].tags) } :
                 i \in 1..Len(profile.skills) }

\* C27: the keyword-match sub-score is the number of posting keywords that
\* are a lowercased skill name or a lowercased skill tag of the profile,
\* divided by the number of posting keywords, and 0 for a posting without
\* keywords; a keyword that is only a tag counts as matched
C27_KeywordMatchRatio ==
  (c_pc = "done" /\ c_fn = "_keyword_match_score") =>
    LET kws == c_args.job_keywords
        found == { k \in 1..Len(kws) : kws[k] \in NamesAndTags(c_args.profile) }
    IN IF kws = <<>>
       THEN c_ret.n = 0
       ELSE c_ret.n * Len(kws) = Cardinality(found) * c_ret.d

\* the keywords ml (a tag only), python (a name) and java (neither) gave 2/3
C27_Witness ==
  /\ c_pc = "done"
  /\ c_fn = "_keyword_match_score"
  /\ c_args.job_keywords = << <<"m","l">>, <<"p","y","t","h","o","n">>, <<"j","a","v","a">> >>
  /\ Len(c_args.profile.skills) = 2
  /\ c_ret.n * 3 = 2 * c_ret.d

----------------------------------------------------------------------------
(* Properties of normalize_company *)

\* text with its trailing legal-entity suffix removed, when it ends with one
\* of the list, and trimmed; no text ends with two suffixes of the list
OneSuffixRemoved(text) ==
  LET ending == { k \in 1..Len(CompanySuffixes) : EndsWith(text, CompanySuffixes[k]) }
  IN IF ending = {} THEN text
     ELSE Strip(SubSeq(text, 1, Len(text) - Len(CompanySuffixes[CHOOSE k \in ending : TRUE])))

\* C28: normalize_company returns normalize_text of the name with one
\* trailing suffix of the list removed and the result trimmed: at most one
\* suffix is removed, a name without suffix comes back as normalize_text
\* gives it, and "Acme Inc." and "Acme" with the same title and location
\* have the same dedup key
C28_OneSuffixStripped ==
  /\ (c_pc = "done" /\ c_fn = "normalize_company") =>
       c_ret = OneSuffixRemoved(normalize_text(c_args.company))
  /\ dedup_key([company |-> <<"A","c","m","e"," ","I","n","c",".">>, title |-> <<"D","e","v">>, location |-> <<"L","o","n","d","o","n">>])
       = dedup_key([company |-> <<"A","c","m","e">>, title |-> <<"D","e","v">>, location |-> <<"L","o","n","d","o","n">>])

----------------------------------------------------------------------------
(* Properties of the entries select_modules emits *)

\* the modules of a type that are in the loaded profile and enabled when
\* select_modules is called: enabled in their file and not disabled since
EnabledModules(type) ==
  { m \in SeqRange(c_args.dir[type]) : m.enabled /\ m.id \notin c_args.disabled }

ModuleOf(type, id) == CHOOSE m \in SeqRange(c_args.dir[type]) : m.id = id

\* x_es when "es" is requested and x_es is a non-empty text, else x
LocalizedField(x_es, x) == IF c_args.language = "es" /\ x_es # "" THEN x_es ELSE x

\* the same for a field that may be None: the value used
LocalizedOptional(x_es, x) ==
  IF c_args.language = "es" /\ x_es # None /\ x_es # Some("") THEN x_es ELSE x

\* C29: for each module type select_modules emits exactly one entry per
\* enabled module and none for a disabled one, in the priority order of the
\* modules, and the title, degree, institution, dates and note of an entry
\* are the localized field when "es" is requested and that field is not
\* empty, else the default field
C29_EntriesPerEnabledModule ==
  (c_pc = "done" /\ c_fn = "load_profile;select_modules") =>
    /\ \A type \in {"experience", "education", "other"} :
         LET entries == c_ret[type]
         IN /\ Len(entries) = Cardinality(EnabledModules(type))
            /\ { entries[k].id : k \in 1..Len(entries) }
                 = { m.id : m \in EnabledModules(type) }
            /\ \A i, j \in 1..Len(entries) :
                 i < j => ModuleOf(type, entries[i].id).priority
                            <= ModuleOf(type, entries[j].id).priority
    /\ \A k \in 1..Len(c_ret.experience) :
         LET e == c_ret.experience[k]
             m == ModuleOf("experience", e.id)
         IN /\ e.title = LocalizedField(m.title_es, m.title)
            /\ e.dates = LocalizedField(m.dates_es, m.dates)
            /\ e.note = LocalizedOptional(m.note_es, m.note)
    /\ \A k \in 1..Len(c_ret.education) :
         LET e == c_ret.education[k]
             m == ModuleOf("education", e.id)
         IN /\ e.title = LocalizedField(m.degree_es, m.degree)
            /\ Some(e.organization) = LocalizedOptional(m.institution_es, Some(m.institution))
            /\ e.dates = LocalizedField(m.dates_es, m.dates)
    /\ \A k \in 1..Len(c_ret.other) :
         LET e == c_ret.other[k]
             m == ModuleOf("other", e.id)
         IN /\ e.title = LocalizedField(m.title_es, m.title)
            /\ e.dates = LocalizedField(m.dates_es, m.dates)

\* an "es" selection from a directory whose experience files are e_a
\* (priority 2), e_c (disabled in its file) and e_b (priority 1): e_b comes
\* first with its Spanish title, e_a second with its Spanish note
C29_Witness ==
  /\ c_pc = "done"
  /\ c_fn = "load_profile;select_modules"
  /\ c_args.language = "es"
  /\ c_args.disabled = {}
  /\ Len(c_args.dir.experience) = 3
  /\ c_args.dir.experience[1].id = "e_a"
  /\ c_args.dir.experience[2].id = "e_c"
  /\ c_args.dir.experience[3].id = "e_b"
  /\ Len(c_ret.experience) = 2
  /\ c_ret.experience[1].id = "e_b"
  /\ c_ret.experience[1].title = "Ingeniero de IA"
  /\ c_ret.experience[2].id = "e_a"
  /\ c_ret.experience[2].note = Some("a tiempo parcial")
  /\ Len(c_ret.education) = 3
  /\ c_ret.education[1].id = "u_b"

----------------------------------------------------------------------------
(* Ids of the postings deduplicate returns *)

\* the postings handed to deduplicate have pairwise distinct ids
InputIdsDistinct ==
  \A i, j \in 1..Len(xs) : i # j => jobs0[xs[i]].id # jobs0[xs[j]].id

\* C30: when the postings given to deduplicate have pairwise distinct ids,
\* the postings it returns have pairwise distinct ids too, also where a
\* replacing posting took over the id of the first one seen
C30_DistinctIdsPreserved ==
  (d_pc = "once" /\ InputIdsDistinct) =>
    \A i, j \in 1..Len(result) : i # j => jobs[result[i]].id # jobs[result[j]].id

\* three postings with distinct ids, two returned, one of them a replacing
\* posting that carries the id of the posting it replaced
C30_Witness ==
  /\ d_pc = "once"
  /\ InputIdsDistinct
  /\ Len(xs) = 3
  /\ Len(result) = 2
  /\ \E r \in Range(result) : jobs[r].id # jobs0[r].id

====
